---- MODULE Spec2Model ----
(***************************************************************************)
(* Statement import pipeline of finco: duplicate detection                 *)
(* (utils.check_duplicate_transaction), category resolve-or-create         *)
(* (utils.create_category_if_not_exists), amount normalisation             *)
(* (utils.parse_amounts) and the atomic importer                           *)
(* (app.save_transactions_to_db_atomic).                                   *)
(*                                                                         *)
(* Conventions.                                                            *)
(*  - A Python str is a sequence of one-character strings.                 *)
(*  - A Python dict / pandas row is a TLA+ record; d.get(k, default) is    *)
(*    Get(d, k, default).                                                  *)
(*  - A datetime is an integer number of half days; DAY is                 *)
(*    timedelta(days=1).                                                   *)
(*  - An amount is an integer number of 1/100 currency units (paise);      *)
(*    the +-1% tolerance is computed exactly (both sides of the comparison *)
(*    are multiplied by 100), so binary floating-point rounding at the     *)
(*    edge of the tolerance window is not part of the model.               *)
(***************************************************************************)
EXTENDS Integers, Sequences, FiniteSets, TLC

\* ------------------------------------------------------------------------
\* Bounds of the model
\* ------------------------------------------------------------------------
\* longest import batch (rows of df_parsed)
MaxRows == 2
\* longest batch of each of the two concurrent imports
MaxRaceRows == 1

\* ------------------------------------------------------------------------
\* Characters and strings
\* ------------------------------------------------------------------------
UpperOf ==
    [c \in {"a","b","c","d","e","f","g","h","i","j","k","l","m","n","o","p",
            "q","r","s","t","u","v","w","x","y","z"} |->
        CASE c = "a" -> "A" [] c = "b" -> "B" [] c = "c" -> "C" [] c = "d" -> "D"
          [] c = "e" -> "E" [] c = "f" -> "F" [] c = "g" -> "G" [] c = "h" -> "H"
          [] c = "i" -> "I" [] c = "j" -> "J" [] c = "k" -> "K" [] c = "l" -> "L"
          [] c = "m" -> "M" [] c = "n" -> "N" [] c = "o" -> "O" [] c = "p" -> "P"
          [] c = "q" -> "Q" [] c = "r" -> "R" [] c = "s" -> "S" [] c = "t" -> "T"
          [] c = "u" -> "U" [] c = "v" -> "V" [] c = "w" -> "W" [] c = "x" -> "X"
          [] c = "y" -> "Y" [] c = "z" -> "Z"]

\* str.upper() on one character
UpperChar(c) == IF c \in DOMAIN UpperOf THEN UpperOf[c] ELSE c

\* str.lower() on one character
LowerChar(c) ==
    IF \E l \in DOMAIN UpperOf : UpperOf[l] = c
    THEN CHOOSE l \in DOMAIN UpperOf : UpperOf[l] = c
    ELSE c

\* str.upper()
Upper(s) == [i \in 1..Len(s) |-> UpperChar(s[i])]

\* str.lower()
Lower(s) == [i \in 1..Len(s) |-> LowerChar(s[i])]

\* s[:n]
Prefix(s, n) == SubSeq(s, 1, IF Len(s) < n THEN Len(s) ELSE n)

\* characters removed by str.strip()
Whitespace == {" "}

RECURSIVE LStrip(_)
LStrip(s) ==
    IF s # << >> /\ Head(s) \in Whitespace THEN LStrip(Tail(s)) ELSE s

RECURSIVE RStrip(_)
RStrip(s) ==
    IF s # << >> /\ s[Len(s)] \in Whitespace
    THEN RStrip(SubSeq(s, 1, Len(s) - 1))
    ELSE s

\* str.strip()
Strip(s) == RStrip(LStrip(s))

\* a missing cell of the statement (float NaN): not a str, truthy, has no
\* .strip(); written as a one-element sequence that is not a character
NaN == << "NaN" >>

\* truth value of a str (or of NaN, which is truthy)
Truthy(s) == s # << >>

\* dict.get(k, default)
Get(d, k, default) == IF k \in DOMAIN d THEN d[k] ELSE default

Abs(x) == IF x < 0 THEN -x ELSE x

\* x BETWEEN lo AND hi (SQL, bounds included)
Between(x, lo, hi) == lo <= x /\ x <= hi

\* timedelta(days=1), in half days
DAY == 2

\* a NULL category_id
NoCategory == 0

\* user_id written on every imported transaction
ImportUser == 1

\* ------------------------------------------------------------------------
\* Duplicate detector (utils.check_duplicate_transaction)
\* ------------------------------------------------------------------------
\* a mutation: the query has no category filter
DuplicateQueryUnfiltered(T, date, amount, category) ==
    {t \in T :
        /\ Between(t.date, date - DAY, date + DAY)
        /\ Between(100 * t.amount, 100 * amount - Abs(amount),
                                   100 * amount + Abs(amount))}

\* The rows the query of lines 335-344 returns from the committed
\* transactions T: date within one day, amount within
\* amount_tolerance = abs(amount) * 0.01, and, when a category was passed,
\* category_id IS NOT NULL.  No filter on user_id.
DuplicateQuery(T, date, amount, category) ==
    {t \in T :
        /\ Between(t.date, date - DAY, date + DAY)
        /\ Between(100 * t.amount, 100 * amount - Abs(amount),
                                   100 * amount + Abs(amount))
        /\ (Truthy(category) => t.category_id # NoCategory)}

\* The description test of lines 347-352.
SimilarDescription(txn_description, description) ==
    /\ Truthy(txn_description) /\ Truthy(description)
    /\ Len(txn_description) > 10 /\ Len(description) > 10
    /\ Prefix(Lower(txn_description), 10) = Prefix(Lower(description), 10)

\* a mutation: descriptions of exactly 10 characters are compared too
check_duplicate_transaction_ge10(T, date, amount, description, category, db_raises) ==
    /\ ~db_raises
    /\ \E t \in DuplicateQuery(T, date, amount, category) :
          /\ Truthy(t.description) /\ Truthy(description)
          /\ Len(t.description) >= 10 /\ Len(description) >= 10
          /\ Prefix(Lower(t.description), 10) = Prefix(Lower(description), 10)

\* check_duplicate_transaction(date, amount, description, category) against
\* the committed transactions T.  db_raises: the session or the query raises;
\* the except clause of lines 356-358 then returns False.
check_duplicate_transaction(T, date, amount, description, category, db_raises) ==
    /\ ~db_raises
    /\ \E t \in DuplicateQuery(T, date, amount, category) :
          SimilarDescription(t.description, description)

\* ------------------------------------------------------------------------
\* Storage (db.DatabaseSession over the tables of models.py)
\* ------------------------------------------------------------------------
\* Every DatabaseSession() is a session of its own: it reads the committed
\* tables, holds what it adds as pending, writes its pending rows on commit
\* (explicit, or on leaving the with-block normally) and drops them on
\* rollback (leaving the with-block by an exception).

\* what a session's query reads of a table: the committed rows (rows another
\* session has added and not committed are not among them)
ReadCommitted(table) == table

\* session.commit(): all pending rows become committed together
SessionCommit(table, pending_rows) ==
    table \cup {pending_rows[i] : i \in 1..Len(pending_rows)}

\* the autoincremented primary key of the next category row
NextCategoryId(C) ==
    IF C = {} THEN 1
    ELSE 1 + CHOOSE m \in {c.category_id : c \in C} :
                  \A c \in C : c.category_id <= m

\* ------------------------------------------------------------------------
\* State
\* ------------------------------------------------------------------------
VARIABLES
    txns,               \* committed rows of table transactions
    cats,               \* committed rows of table categories
    pc,                 \* per import: where save_transactions_to_db_atomic is
    df_parsed,          \* per import: the normalized rows
    edits,              \* per import: the overlay, one dict per row ({} = none)
    unique_categories,  \* per import: names still to resolve
    cat_name,           \* per import: name between existence check and insert
    category_map,       \* per import: name -> category_id
    new_categories,     \* per import: returned list
    idx,                \* per import: rows processed so far
    pending,            \* per import: rows added to the session, not committed
    success_count,      \* per import
    error_count,        \* per import
    warnings,           \* per import: rows reported by st.warning as duplicates
    staged,             \* per import: rows on which db.add ran
    raised,             \* per import: rows whose try-block raised
    outcome,            \* per import: how the function left the with-block
    call,               \* a single call of check_duplicate_transaction
    answer,             \* ... and what it returned
    amount_str,         \* a single call of parse_single_amount
    amount_out,         \* ... and what it returned
    date_str,           \* a single call of parse_single_date
    date_written,       \* ... the date and format its text was written from
    date_out,           \* ... and what it returned
    page,               \* where one run of show_import on an upload is
    df,                 \* the uploaded table: its headers and its rows
    auto_mappings,      \* what auto_detect_column_mapping returned for it
    column_mapping,     \* the six selections of the mapping form
    parsed_data,        \* what parse_and_standardize_dataframe returned
    worksheet,          \* the rows of one worksheet of the spreadsheet
    appender,           \* per session: where its call of _append_row is
    analytics_cache,    \* the rows of table analytics_cache of one user
    utcnow,             \* datetime.utcnow(), in seconds
    cached              \* the last call of a cached analytics function

vars == << txns, cats, pc, df_parsed, edits, unique_categories, cat_name,
           category_map, new_categories, idx, pending, success_count,
           error_count, warnings, staged, raised, outcome, call, answer,
           amount_str, amount_out, date_str, date_written, date_out,
           page, df, auto_mappings, column_mapping, parsed_data,
           worksheet, appender, analytics_cache, utcnow, cached >>

\* the variables of the calls of the normalisation functions on their own
dateVars == << date_str, date_written, date_out >>

\* the variables of one run of the import page
pageVars == << page, df, auto_mappings, column_mapping, parsed_data >>

\* the variables of the worksheet layer
sheetVars == << worksheet, appender >>

\* the variables of the analytics cache
cacheVars == << analytics_cache, utcnow, cached >>

otherVars == << sheetVars, cacheVars >>

normVars == << dateVars, pageVars, otherVars >>

importVars == << pc, df_parsed, edits, unique_categories, cat_name,
                 category_map, new_categories, idx, pending, success_count,
                 error_count, warnings, staged, raised, outcome >>

\* the sessions that may import concurrently
Procs == {1, 2}

\* ------------------------------------------------------------------------
\* Atomic importer (app.save_transactions_to_db_atomic)
\* ------------------------------------------------------------------------
\* the values the function reads from row number i (lines 996-1000 and
\* 1028-1036); merchant and description are the same value (line 1036)
EditOf(p, i) == edits[p][i]

RowDate(p, i) == Get(EditOf(p, i), "date", df_parsed[p][i].date)

\* a mutation: the overlay's amount is not looked at
RowAmountUnedited(p, i) == df_parsed[p][i].amount

RowAmount(p, i) == Get(EditOf(p, i), "amount", df_parsed[p][i].amount)

RowMerchant(p, i) ==
    Get(EditOf(p, i), "merchant",
        Get(df_parsed[p][i], "merchant",
            Get(df_parsed[p][i], "description", << >>)))

RowCategory(p, i) ==
    Get(EditOf(p, i), "category", Get(df_parsed[p][i], "category", << >>))

\* the name kept by "if v and v.strip(): unique.add(v.strip())"
Collectable(v) == Truthy(v) /\ Truthy(Strip(v))

\* where the function goes once a category name is resolved
AfterCategories(p, rest) ==
    IF rest # {} THEN "categories"
    ELSE IF Len(df_parsed[p]) = 0 THEN "commit" ELSE "rows"

\* a mutation: the exception is not caught and leaves the function
OnDatabaseErrorEscapes(p, why) ==
    /\ pending' = [pending EXCEPT ![p] = << >>]
    /\ outcome' = [outcome EXCEPT ![p] = why]
    /\ pc' = [pc EXCEPT ![p] = "raised"]
    /\ UNCHANGED << error_count, success_count >>

\* lines 1081-1084: any exception that leaves the with-block (the session
\* rolls back what it holds); every row is reported as an error
OnDatabaseError(p, why) ==
    /\ error_count' = [error_count EXCEPT ![p] = Len(df_parsed[p])]
    /\ success_count' = [success_count EXCEPT ![p] = 0]
    /\ pending' = [pending EXCEPT ![p] = << >>]
    /\ outcome' = [outcome EXCEPT ![p] = why]
    /\ pc' = [pc EXCEPT ![p] = "done"]

\* lines 986-1006: enter the session and collect the names to resolve.
\* A missing (NaN) merchant or category cell is truthy and has no .strip():
\* the AttributeError is raised outside the per-row try.  session_raises:
\* DatabaseSession() cannot be entered.
Begin(p) ==
    /\ pc[p] = "start"
    /\ \E session_raises \in BOOLEAN :
          LET rows == 1..Len(df_parsed[p])
              names == {Strip(RowCategory(p, i)) :
                           i \in {j \in rows : Collectable(RowCategory(p, j))}}
          IN IF session_raises
             THEN /\ OnDatabaseError(p, "session_failed")
                  /\ UNCHANGED unique_categories
             ELSE IF \E i \in rows : RowMerchant(p, i) = NaN \/ RowCategory(p, i) = NaN
             THEN /\ OnDatabaseError(p, "aborted")
                  /\ UNCHANGED unique_categories
             ELSE /\ unique_categories' = [unique_categories EXCEPT ![p] = names]
                  /\ pc' = [pc EXCEPT ![p] = AfterCategories(p, names)]
                  /\ UNCHANGED << error_count, success_count, pending, outcome >>
    /\ UNCHANGED << txns, cats, df_parsed, edits, cat_name, category_map,
                    new_categories, idx, warnings, staged, raised, call,
                    answer, amount_str, amount_out,
                    normVars >>

\* lines 1012-1015 after create_category_if_not_exists(name) returned
\* category_id, with C the categories the importer's own session then reads
RecordCategory(p, name, category_id, C) ==
    /\ category_map' =
          [category_map EXCEPT ![p] =
              IF category_id # NoCategory THEN (name :> category_id) @@ @ ELSE @]
    /\ new_categories' =
          [new_categories EXCEPT ![p] =
              IF category_id # NoCategory /\ name \notin {c.name : c \in C}
              THEN Append(@, name) ELSE @]
    /\ unique_categories' = [unique_categories EXCEPT ![p] = @ \ {name}]
    /\ pc' = [pc EXCEPT ![p] = AfterCategories(p, unique_categories[p] \ {name})]
    /\ UNCHANGED << error_count, success_count, pending, outcome >>

\* line 1014 when the query of the importer's session raises: the exception
\* leaves the with-block
OnCategoryQueryError(p) ==
    /\ OnDatabaseError(p, "query_failed")
    /\ UNCHANGED << category_map, new_categories, unique_categories >>

\* create_category_if_not_exists, lines 374-379 (and 392-394): its own
\* session looks the name up; an existing row's id is returned, a raising
\* session returns None.  query_raises: the importer's query of line 1014
\* raises.
FindCategory(p) ==
    /\ pc[p] = "categories"
    /\ \E name \in unique_categories[p], db_raises \in BOOLEAN,
          query_raises \in BOOLEAN :
          LET existing == {c \in ReadCommitted(cats) : c.name = name}
          IN IF db_raises
             THEN /\ RecordCategory(p, name, NoCategory, ReadCommitted(cats))
                  /\ UNCHANGED cat_name
             ELSE IF existing # {} /\ query_raises
             THEN /\ OnCategoryQueryError(p)
                  /\ UNCHANGED cat_name
             ELSE IF existing # {}
             THEN \E c \in existing :
                     /\ RecordCategory(p, name, c.category_id, ReadCommitted(cats))
                     /\ UNCHANGED cat_name
             ELSE /\ cat_name' = [cat_name EXCEPT ![p] = name]
                  /\ pc' = [pc EXCEPT ![p] = "create"]
                  /\ UNCHANGED << category_map, new_categories, unique_categories,
                                  error_count, success_count, pending, outcome >>
    /\ UNCHANGED << txns, cats, df_parsed, edits, idx, warnings, staged, raised,
                    call, answer, amount_str, amount_out,
                    normVars >>

\* a mutation: the insert looks the name up again and inserts nothing when
\* a row of that name is there by now
InsertCategoryOnce(p, name) ==
    IF \E c \in cats : c.name = name
    THEN /\ cats' = cats
         /\ RecordCategory(p, name,
                (CHOOSE c \in cats : c.name = name).category_id, cats)
    ELSE /\ cats' = cats \cup {[category_id |-> NextCategoryId(cats),
                                name |-> name, by |-> p]}
         /\ RecordCategory(p, name, NextCategoryId(cats), cats')

\* create_category_if_not_exists, lines 381-390: add the new row, flush,
\* and leave the with-block, which commits that session
InsertCategory(p, name) ==
    /\ cats' = SessionCommit(cats, << [category_id |-> NextCategoryId(cats),
                                       name |-> name, by |-> p] >>)
    /\ RecordCategory(p, name, NextCategoryId(cats), ReadCommitted(cats'))

\* the insert of create_category_if_not_exists and lines 1012-1015 after
\* it; query_raises: the importer's query of line 1014 raises
CreateCategory(p) ==
    /\ pc[p] = "create"
    /\ \E db_raises \in BOOLEAN, query_raises \in BOOLEAN :
          IF db_raises
          THEN /\ RecordCategory(p, cat_name[p], NoCategory, cats)
               /\ cats' = cats
          ELSE IF query_raises
          THEN /\ cats' = SessionCommit(cats,
                             << [category_id |-> NextCategoryId(cats),
                                 name |-> cat_name[p], by |-> p] >>)
               /\ OnCategoryQueryError(p)
          ELSE InsertCategory(p, cat_name[p])
    /\ cat_name' = [cat_name EXCEPT ![p] = << >>]
    /\ UNCHANGED << txns, df_parsed, edits, idx, warnings, staged, raised, call,
                    answer, amount_str, amount_out,
                    normVars >>

\* lines 1051-1061
NewTransaction(p, i) ==
    [user_id |-> ImportUser,
     date |-> RowDate(p, i),
     merchant |-> RowMerchant(p, i),
     description |-> RowMerchant(p, i),
     amount |-> RowAmount(p, i),
     category_id |-> Get(category_map[p], RowCategory(p, i), NoCategory),
     by |-> p, row |-> i]

\* lines 1039-1040: "continue"
SkipRow(p, i) ==
    UNCHANGED << txns, pending, staged, success_count, error_count, warnings,
                 raised >>

\* a mutation: a flagged row is counted as an error
SkipDuplicateCounted(p, i) ==
    /\ warnings' = [warnings EXCEPT ![p] = @ \cup {i}]
    /\ error_count' = [error_count EXCEPT ![p] = @ + 1]
    /\ UNCHANGED << txns, pending, staged, success_count, raised >>

\* lines 1043-1045: warn and "continue"
SkipDuplicate(p, i) ==
    /\ warnings' = [warnings EXCEPT ![p] = @ \cup {i}]
    /\ UNCHANGED << txns, pending, staged, success_count, error_count, raised >>

\* a mutation: the handler does not count the row
OnRowErrorUncounted(p, i) ==
    /\ raised' = [raised EXCEPT ![p] = @ \cup {i}]
    /\ UNCHANGED << txns, pending, staged, success_count, error_count, warnings >>

\* lines 1074-1076: the per-row except clause
OnRowError(p, i) ==
    /\ error_count' = [error_count EXCEPT ![p] = @ + 1]
    /\ raised' = [raised EXCEPT ![p] = @ \cup {i}]
    /\ UNCHANGED << txns, pending, staged, success_count, warnings >>

\* a mutation: every row is committed as soon as it is added, and a commit
\* that raises is handled by the per-row except clause
StageRowCommitEach(p, i) ==
    /\ staged' = [staged EXCEPT ![p] = @ \cup {i}]
    /\ \E commit_raises \in BOOLEAN :
          IF commit_raises
          THEN /\ error_count' = [error_count EXCEPT ![p] = @ + 1]
               /\ UNCHANGED << txns, success_count >>
          ELSE /\ txns' = txns \cup {NewTransaction(p, i)}
               /\ success_count' = [success_count EXCEPT ![p] = @ + 1]
               /\ UNCHANGED error_count
    /\ UNCHANGED << pending, warnings, raised >>

\* lines 1063-1064: db.add(transaction); success_count += 1
StageRow(p, i) ==
    /\ pending' = [pending EXCEPT ![p] = Append(@, NewTransaction(p, i))]
    /\ staged' = [staged EXCEPT ![p] = @ \cup {i}]
    /\ success_count' = [success_count EXCEPT ![p] = @ + 1]
    /\ UNCHANGED << txns, error_count, warnings, raised >>

\* lines 1025-1076: one pass of the row loop.  dup_raises: the duplicate
\* check's session raises; row_raises: building or adding the record raises.
ProcessRow(p) ==
    /\ pc[p] = "rows"
    /\ LET i == idx[p] + 1
       IN /\ \E dup_raises \in BOOLEAN, row_raises \in BOOLEAN :
                IF RowAmount(p, i) = 0
                THEN SkipRow(p, i)
                ELSE IF check_duplicate_transaction(ReadCommitted(txns), RowDate(p, i),
                            RowAmount(p, i), RowMerchant(p, i),
                            RowCategory(p, i), dup_raises)
                THEN SkipDuplicate(p, i)
                ELSE IF row_raises
                THEN OnRowError(p, i)
                ELSE StageRow(p, i)
          /\ idx' = [idx EXCEPT ![p] = i]
          /\ pc' = [pc EXCEPT ![p] =
                       IF i = Len(df_parsed[p]) THEN "commit" ELSE "rows"]
    /\ UNCHANGED << cats, df_parsed, edits, unique_categories, cat_name,
                    category_map, new_categories, outcome, call, answer,
                    amount_str, amount_out,
                    normVars >>

\* a mutation: the handler of a failed commit keeps the counters of the loop
OnCommitErrorKeepCounts(p) ==
    /\ pending' = [pending EXCEPT ![p] = << >>]
    /\ outcome' = [outcome EXCEPT ![p] = "commit_failed"]
    /\ pc' = [pc EXCEPT ![p] = "done"]
    /\ UNCHANGED << error_count, success_count >>

\* lines 1079-1084 when db.commit() raises
OnCommitError(p) == OnDatabaseError(p, "commit_failed")

\* lines 1078-1086: the single commit, and the return
CommitImport(p) ==
    /\ pc[p] = "commit"
    /\ \E commit_raises \in BOOLEAN :
          IF commit_raises
          THEN /\ OnCommitError(p)
               /\ txns' = txns
          ELSE /\ txns' = SessionCommit(txns, pending[p])
               /\ pending' = [pending EXCEPT ![p] = << >>]
               /\ outcome' = [outcome EXCEPT ![p] = "committed"]
               /\ pc' = [pc EXCEPT ![p] = "done"]
               /\ UNCHANGED << error_count, success_count >>
    /\ UNCHANGED << cats, df_parsed, edits, unique_categories, cat_name,
                    category_map, new_categories, idx, warnings, staged,
                    raised, call, answer, amount_str, amount_out,
                    normVars >>

\* ------------------------------------------------------------------------
\* Inputs
\* ------------------------------------------------------------------------
\* "Bigbasket Groc": a normalized (title-cased) description of 14 characters
DescGroc == << "B","i","g","b","a","s","k","e","t"," ","G","r","o","c" >>

\* "Bigbasket Mart": the same first 10 characters, another tail
DescMart == << "B","i","g","b","a","s","k","e","t"," ","M","a","r","t" >>

\* "BIGBASKET X": 11 characters, the same first 10 once lower-cased
DescUpper == << "B","I","G","B","A","S","K","E","T"," ","X" >>

\* "Bigbasket ": exactly 10 characters
DescTen == << "B","i","g","b","a","s","k","e","t"," " >>

\* "Electricity": 11 characters, another prefix
DescPower == << "E","l","e","c","t","r","i","c","i","t","y" >>

\* "Tea"
DescTea == << "T","e","a" >>

Food == << "F","o","o","d" >>

Rent == << "R","e","n","t" >>

\* edits.get(edit_key, {}) of a row that was not edited
NoEdit == << >>

\* a committed transaction that no import of the model wrote
Stored(user_id, date, amount, description, category_id) ==
    [user_id |-> user_id, date |-> date, merchant |-> description,
     description |-> description, amount |-> amount,
     category_id |-> category_id, by |-> 0, row |-> 0]

\* a committed category that no import of the model wrote
StoredFood == [category_id |-> 1, name |-> Food, by |-> 0]

\* the stores an import may start from
Stores ==
    << [txns |-> {}, cats |-> {}],
       [txns |-> {}, cats |-> {StoredFood}],
       [txns |-> {Stored(1, 5, 10000, DescUpper, NoCategory)}, cats |-> {}],
       [txns |-> {Stored(2, 3, 10000, DescUpper, NoCategory)}, cats |-> {StoredFood}],
       [txns |-> {Stored(1, 4, 7000, DescPower, 1)}, cats |-> {StoredFood}] >>

\* rows of a statement, each with its overlay; all of one statement have
\* the same columns
InputPool ==
    << [row |-> [date |-> 4, amount |-> 10000, description |-> DescGroc],
        edit |-> NoEdit],
       [row |-> [date |-> 4, amount |-> 10050, description |-> DescMart],
        edit |-> NoEdit],
       [row |-> [date |-> 4, amount |-> 0, description |-> DescPower],
        edit |-> NoEdit],
       [row |-> [date |-> 6, amount |-> -5000, description |-> DescTea],
        edit |-> [category |-> Rent]],
       [row |-> [date |-> 4, amount |-> 7000, description |-> DescPower,
                 category |-> Food],
        edit |-> NoEdit],
       [row |-> [date |-> 4, amount |-> -2500, description |-> DescTea,
                 category |-> Rent],
        edit |-> [merchant |-> DescGroc, category |-> Food,
                  date |-> 6, amount |-> 10000]],
       [row |-> [date |-> 4, amount |-> -2500, description |-> DescTea,
                 merchant |-> DescMart],
        edit |-> NoEdit],
       [row |-> [date |-> 4, amount |-> 7000, description |-> DescPower,
                 merchant |-> NaN],
        edit |-> NoEdit] >>

\* rows of the statements two sessions import at the same time
RacePool ==
    << [row |-> [date |-> 4, amount |-> 7000, description |-> DescPower,
                 category |-> Food],
        edit |-> NoEdit],
       [row |-> [date |-> 4, amount |-> 10000, description |-> DescGroc,
                 category |-> Rent],
        edit |-> NoEdit] >>

\* the statements of 1..n rows over a pool (as sequences of pool indices)
Batches(pool, n) ==
    {b \in UNION {[1..k -> 1..Len(pool)] : k \in 1..n} :
        \A i, j \in 1..Len(b) : DOMAIN pool[b[i]].row = DOMAIN pool[b[j]].row}

RowsOf(pool, b) == [i \in 1..Len(b) |-> pool[b[i]].row]

EditsOf(pool, b) == [i \in 1..Len(b) |-> pool[b[i]].edit]

NoCall == [made |-> FALSE]

NotParsed == [done |-> FALSE, kind |-> "finite", value |-> 0]

\* no call of check_duplicate_transaction on its own
NoDupCall == call = NoCall /\ answer = FALSE

\* no call of parse_single_amount on its own
NoAmountCall == amount_str = << >> /\ amount_out = NotParsed

\* the missing datetime (pd.NaT)
NaT == [null |-> TRUE, year |-> 0, month |-> 0, day |-> 0]

NotWritten == [fmt |-> 0]

NotDated == [done |-> FALSE, value |-> NaT, consulted |-> FALSE, permissive |-> NaT]

\* no call of parse_single_date on its own
NoDateCall == date_str = << >> /\ date_written = NotWritten /\ date_out = NotDated

\* an upload without headers and rows
NoTable == [columns |-> << >>, rows |-> << >>]

\* no mapping form filled in
NoSelection ==
    [date |-> << >>, description |-> << >>, amount |-> << >>,
     merchant |-> << >>, account |-> << >>, category |-> << >>]

\* no upload on the import page
NoUpload ==
    /\ page = "off" /\ df = NoTable /\ auto_mappings = << >>
    /\ column_mapping = NoSelection /\ parsed_data = NoTable

\* no call of _append_row
NoSheetCall == worksheet = << >> /\ appender = << >>

\* no call of a cached analytics function
NoCacheCall == analytics_cache = << >> /\ utcnow = 0 /\ cached = << >>

NoOtherCall == NoSheetCall /\ NoCacheCall

NoNormCall == NoDateCall /\ NoUpload /\ NoOtherCall

\* the local variables of save_transactions_to_db_atomic at its entry
\* (lines 980-984), for the imports in S with statements B
InitImport(pool, S, B) ==
    /\ pc = [p \in Procs |-> IF p \in S THEN "start" ELSE "off"]
    /\ df_parsed = [p \in Procs |-> IF p \in S THEN RowsOf(pool, B[p]) ELSE << >>]
    /\ edits = [p \in Procs |-> IF p \in S THEN EditsOf(pool, B[p]) ELSE << >>]
    /\ unique_categories = [p \in Procs |-> {}]
    /\ cat_name = [p \in Procs |-> << >>]
    /\ category_map = [p \in Procs |-> << >>]
    /\ new_categories = [p \in Procs |-> << >>]
    /\ idx = [p \in Procs |-> 0]
    /\ pending = [p \in Procs |-> << >>]
    /\ success_count = [p \in Procs |-> 0]
    /\ error_count = [p \in Procs |-> 0]
    /\ warnings = [p \in Procs |-> {}]
    /\ staged = [p \in Procs |-> {}]
    /\ raised = [p \in Procs |-> {}]
    /\ outcome = [p \in Procs |-> "none"]

\* one session imports one statement
Init ==
    /\ \E s \in 1..Len(Stores) : txns = Stores[s].txns /\ cats = Stores[s].cats
    /\ \E b \in Batches(InputPool, MaxRows) :
          InitImport(InputPool, {1}, [p \in Procs |-> b])
    /\ NoDupCall /\ NoAmountCall /\ NoNormCall

\* two sessions import a statement each
InitRace ==
    /\ \E s \in 1..2 : txns = Stores[s].txns /\ cats = Stores[s].cats
    /\ \E B \in [Procs -> Batches(RacePool, MaxRaceRows)] :
          InitImport(RacePool, Procs, B)
    /\ NoDupCall /\ NoAmountCall /\ NoNormCall

\* a step of save_transactions_to_db_atomic for import p
ImportStep(p) ==
    \/ Begin(p)
    \/ FindCategory(p)
    \/ CreateCategory(p)
    \/ ProcessRow(p)
    \/ CommitImport(p)

Next ==
    \E p \in Procs :
        \/ Begin(p)
        \/ FindCategory(p)
        \/ CreateCategory(p)
        \/ ProcessRow(p)
        \/ CommitImport(p)

Spec == Init /\ [][Next]_vars

SpecRace == InitRace /\ [][Next]_vars

\* ------------------------------------------------------------------------
\* Properties of the atomic importer
\* ------------------------------------------------------------------------
\* the rows of import p that are in the committed table
ImportedRows(p) == {t.row : t \in {u \in txns : u.by = p}}

\* the committed transactions that were there before any import of the model
StoredBefore == {t \in txns : t.by = 0}

Returned(p) == pc[p] = "done"

\* C1: once save_transactions_to_db_atomic has returned, the rows it staged
\* (db.add ran on them) are all in the committed table, or none of them is.
C1_AllOrNothing ==
    \A p \in Procs :
        Returned(p) => ImportedRows(p) = staged[p] \/ ImportedRows(p) = {}

\* C1 witness: the final commit failed after two rows were staged, and
\* neither is in the table.
C1_Witness ==
    /\ Returned(1) /\ outcome[1] = "commit_failed"
    /\ Cardinality(staged[1]) >= 2
    /\ ImportedRows(1) = {}

\* C2: when the final commit raises, the function returns success_count = 0
\* and error_count = the number of rows of the batch.
C2_CommitFailureCounts ==
    \A p \in Procs :
        outcome[p] = "commit_failed" =>
            success_count[p] = 0 /\ error_count[p] = Len(df_parsed[p])

\* C2 witness: the commit failed after the loop had counted one success and
\* one error.
C2_Witness ==
    /\ outcome[1] = "commit_failed"
    /\ staged[1] # {} /\ raised[1] # {}
    /\ success_count[1] = 0 /\ error_count[1] = Len(df_parsed[1])

\* C3: a row whose construction or staging raises adds exactly one to
\* error_count, the loop goes on, and after a successful commit every row
\* that neither raised nor was skipped (zero amount, duplicate) is in the
\* committed table.
C3_RowErrorIsLocal ==
    \A p \in Procs :
        /\ pc[p] \in {"rows", "commit"} => error_count[p] = Cardinality(raised[p])
        /\ outcome[p] = "committed" =>
              /\ error_count[p] = Cardinality(raised[p])
              /\ idx[p] = Len(df_parsed[p])
              /\ \A i \in 1..Len(df_parsed[p]) :
                    (i \notin raised[p] /\ i \notin warnings[p] /\ RowAmount(p, i) # 0)
                        => i \in ImportedRows(p)

\* C3 witness: a row raised, a later row was staged, and the commit
\* persisted it.
C3_Witness ==
    /\ outcome[1] = "committed"
    /\ \E i \in raised[1], j \in ImportedRows(1) : i < j
    /\ error_count[1] = 1

\* the batch of scenario 2: two rows, same date, amounts within 1% of each
\* other, descriptions longer than 10 characters with the same first 10
\* lower-cased characters
TwinRows(p) ==
    /\ Len(df_parsed[p]) = 2
    /\ RowDate(p, 1) = RowDate(p, 2)
    /\ RowAmount(p, 1) # 0 /\ RowAmount(p, 2) # 0
    /\ 100 * Abs(RowAmount(p, 1) - RowAmount(p, 2)) <= Abs(RowAmount(p, 1))
    /\ 100 * Abs(RowAmount(p, 1) - RowAmount(p, 2)) <= Abs(RowAmount(p, 2))
    /\ Len(RowMerchant(p, 1)) > 10 /\ Len(RowMerchant(p, 2)) > 10
    /\ Prefix(Lower(RowMerchant(p, 1)), 10) = Prefix(Lower(RowMerchant(p, 2)), 10)

\* C4 (as claimed): for the batch of scenario 2 and a store with no
\* matching record, a successful import persists the first row, skips the
\* second as a duplicate and returns success_count = 1.
C4_SecondTwinSkipped ==
    \A p \in Procs :
        ( /\ outcome[p] = "committed" /\ raised[p] = {}
          /\ TwinRows(p)
          /\ \A i \in 1..2 :
                ~check_duplicate_transaction(StoredBefore, RowDate(p, i),
                    RowAmount(p, i), RowMerchant(p, i), RowCategory(p, i), FALSE) )
        => success_count[p] = 1 /\ ImportedRows(p) = {1} /\ warnings[p] = {2}

\* C7 (as claimed): a row is flagged and skipped only because of a stored
\* transaction of the importing user.
C7_OnlyOwnTransactionsFlag ==
    \A p \in Procs : \A i \in warnings[p] :
        \E t \in DuplicateQuery(txns, RowDate(p, i), RowAmount(p, i), RowCategory(p, i)) :
            /\ t.user_id = ImportUser
            /\ SimilarDescription(t.description, RowMerchant(p, i))

DupStoredPool ==
    { Stored(1, 4, 10000, DescUpper, NoCategory),
      Stored(2, 5, -10000, DescGroc, 1),
      Stored(1, 6, 10000, DescTen, NoCategory),
      Stored(1, 4, 0, DescPower, NoCategory),
      Stored(1, 6, 9900, DescGroc, 1) }

DupDates == {2, 3, 4, 6, 7}

DupAmounts == {0, 9900, 10000, 10050, 10100, 10101, -9900, -10000, -10100, -10101}

DupDescriptions == {<< >>, DescTea, DescTen, DescMart, DescPower}

InitDup ==
    /\ txns \in SUBSET DupStoredPool
    /\ cats = {StoredFood}
    /\ InitImport(InputPool, {}, [p \in Procs |-> << >>])
    /\ NoDupCall /\ NoAmountCall /\ NoNormCall

\* one call check_duplicate_transaction(date, amount, description, category)
CheckDuplicate ==
    /\ ~call.made
    /\ \E date \in DupDates, amount \in DupAmounts,
          description \in DupDescriptions, category \in {<< >>, Food, Rent},
          db_raises \in BOOLEAN :
          /\ call' = [made |-> TRUE, date |-> date, amount |-> amount,
                      description |-> description, category |-> category,
                      db_raises |-> db_raises]
          /\ answer' = check_duplicate_transaction(ReadCommitted(txns), date, amount,
                            description, category, db_raises)
    /\ UNCHANGED << txns, cats, importVars, amount_str, amount_out,
                    normVars >>

NextDup == CheckDuplicate

SpecDup == InitDup /\ [][NextDup]_vars

\* the first 10 lower-cased characters of two descriptions longer than 10
SamePrefix(a, b) ==
    /\ Len(a) > 10 /\ Len(b) > 10
    /\ \A k \in 1..10 : LowerChar(a[k]) = LowerChar(b[k])

\* C5 (as claimed): with one existing record of amount A # 0, one day apart
\* at most and with a matching prefix, the candidate is flagged at exactly
\* 1.01 A and at exactly 0.99 A, and is not flagged at 1.0101 A.
C5_SymmetricTolerance ==
    (call.made /\ ~call.db_raises /\ call.category = << >>) =>
        \A t \in txns :
            ( /\ txns = {t} /\ t.amount # 0
              /\ Abs(t.date - call.date) <= DAY
              /\ SamePrefix(t.description, call.description) )
            => /\ 100 * call.amount = 101 * t.amount => answer
               /\ 100 * call.amount = 99 * t.amount => answer
               /\ 10000 * call.amount = 10101 * t.amount => ~answer

\* C6: a call without a category whose query returns answers True exactly
\* when some committed transaction is at most one day away, differs in
\* amount by at most 1% of the candidate's absolute amount, and both
\* descriptions are longer than 10 characters and agree, lower-cased, on
\* the first 10.
C6_DuplicateIff ==
    (call.made /\ ~call.db_raises /\ call.category = << >>) =>
        (answer <=>
            \E t \in txns :
                /\ Abs(t.date - call.date) <= DAY
                /\ 100 * Abs(t.amount - call.amount) <= Abs(call.amount)
                /\ SamePrefix(t.description, call.description))

\* C6 witness: a call flagged because of a record exactly one day later
\* whose amount is 1% of the candidate's amount away.
C6_Witness ==
    /\ call.made /\ ~call.db_raises /\ call.category = << >> /\ answer
    /\ call.amount # 0
    /\ \A t \in txns : t.date = call.date + DAY
                       /\ 100 * Abs(t.amount - call.amount) = Abs(call.amount)
    /\ txns # {}

RUPEE == "INR"

\* the characters re.sub(r'[...,\s]', '', s) removes: the currency signs
\* (rupee, dollar, euro, pound, yen), the comma and white space
StrippedChars == {RUPEE, "$", "EUR", "GBP", "JPY", ",", " "}

Digits == {"0", "1", "2", "3", "4", "5", "6", "7", "8", "9"}

DigitValue(c) ==
    CASE c = "0" -> 0 [] c = "1" -> 1 [] c = "2" -> 2 [] c = "3" -> 3
      [] c = "4" -> 4 [] c = "5" -> 5 [] c = "6" -> 6 [] c = "7" -> 7
      [] c = "8" -> 8 [] c = "9" -> 9

\* the characters of s that are not in the set cs, in order
RECURSIVE Without(_, _)
Without(s, cs) ==
    IF s = << >> THEN << >>
    ELSE IF Head(s) \in cs THEN Without(Tail(s), cs)
    ELSE << Head(s) >> \o Without(Tail(s), cs)

\* sub in s
Contains(s, sub) ==
    \E i \in 1..(Len(s) - Len(sub) + 1) : SubSeq(s, i, i + Len(sub) - 1) = sub

\* s.replace(sub, '')
RECURSIVE Remove(_, _)
Remove(s, sub) ==
    IF Len(s) < Len(sub) THEN s
    ELSE IF SubSeq(s, 1, Len(sub)) = sub
    THEN Remove(SubSeq(s, Len(sub) + 1, Len(s)), sub)
    ELSE << Head(s) >> \o Remove(Tail(s), sub)

\* the number a string of digits writes
RECURSIVE DigitsValue(_)
DigitsValue(s) ==
    IF s = << >> THEN 0
    ELSE 10 * DigitsValue(SubSeq(s, 1, Len(s) - 1)) + DigitValue(s[Len(s)])

\* float(s): an optional sign, then either digits with at most one point and
\* at least one digit, or one of the words nan, inf, infinity in any letter
\* case; anything else is a ValueError (ok = FALSE).  kind tells a finite
\* number from a not-a-number and an infinity; the value of a finite number
\* is in 1/100 units, exact for up to two decimals.  (Exponents and
\* digit-group underscores are not written by any input of the model.)
NanWords == { << "n", "a", "n" >> }

InfWords == { << "i", "n", "f" >>, << "i", "n", "f", "i", "n", "i", "t", "y" >> }

Float(s) ==
    LET signed == s # << >> /\ Head(s) \in {"+", "-"}
        body == IF signed THEN Tail(s) ELSE s
        points == {i \in 1..Len(body) : body[i] = "."}
        point == IF points = {} THEN Len(body) + 1
                 ELSE CHOOSE i \in points : \A j \in points : i <= j
        whole == SubSeq(body, 1, point - 1)
        frac == SubSeq(body, point + 1, Len(body))
        frac2 == Prefix(frac \o << "0", "0" >>, 2)
        ok == /\ Cardinality(points) <= 1
              /\ \A i \in 1..Len(whole) : whole[i] \in Digits
              /\ \A i \in 1..Len(frac) : frac[i] \in Digits
              /\ Len(whole) + Len(frac) >= 1
        magnitude == 100 * DigitsValue(whole) + DigitsValue(frac2)
    IN IF Lower(body) \in NanWords
       THEN [ok |-> TRUE, kind |-> "nan", value |-> 0]
       ELSE IF Lower(body) \in InfWords
       THEN [ok |-> TRUE, kind |-> "inf", value |-> 0]
       ELSE IF ok
       THEN [ok |-> TRUE, kind |-> "finite",
             value |-> IF signed /\ Head(s) = "-" THEN -magnitude ELSE magnitude]
       ELSE [ok |-> FALSE, kind |-> "finite", value |-> 0]

CR == << "C", "R" >>

CREDIT == << "C", "R", "E", "D", "I", "T" >>

DR == << "D", "R" >>

DEBIT == << "D", "E", "B", "I", "T" >>

\* lines 621-623: a value wrapped in parentheses is negative
Parenthesised(s) ==
    IF Len(s) >= 1 /\ Head(s) = "(" /\ s[Len(s)] = ")"
    THEN << "-" >> \o SubSeq(s, 2, Len(s) - 1)
    ELSE s

\* lines 629-633: credit and debit indicators
Indicators(s) ==
    IF Contains(Upper(s), CR) \/ Contains(Upper(s), CREDIT)
    THEN Remove(Remove(s, CR), CREDIT)
    ELSE IF Contains(Upper(s), DR) \/ Contains(Upper(s), DEBIT)
    THEN << "-" >> \o Remove(Remove(s, DR), DEBIT)
    ELSE s

\* lines 635-638: the float, or 0.0 when float() raises ValueError
FloatOrZero(s) == [kind |-> Float(s).kind, value |-> Float(s).value]

\* lines 615-616: a missing cell is 0.0
Zero == [kind |-> "finite", value |-> 0]

\* a mutation: the parentheses are removed and the sign is not set
parse_single_amount_unsigned_parens(amount) ==
    IF amount = NaN THEN Zero
    ELSE FloatOrZero(Indicators(Without(
            Without(Strip(amount), {"(", ")"}), StrippedChars)))

\* lines 619-633: the cleaned text that is handed to float()
CleanedAmount(amount) ==
    Indicators(Without(Parenthesised(Strip(amount)), StrippedChars))

\* parse_single_amount(amount_str), lines 614-638: a float, its value in
\* 1/100 units
parse_single_amount(amount) ==
    IF amount = NaN THEN Zero ELSE FloatOrZero(CleanedAmount(amount))

\* unsigned decimal numbers, as written and in 1/100 units
Numerals ==
    { [text |-> << "1", "2", "3", "4", ".", "5", "0" >>, value |-> 123450],
      [text |-> << "1", ",", "2", "3", "4", ".", "5", "0" >>, value |-> 123450],
      [text |-> << "7" >>, value |-> 700],
      [text |-> << "0", ".", "5" >>, value |-> 50],
      [text |-> << "1", "0", "0" >>, value |-> 10000],
      [text |-> << "2", "5", "." >>, value |-> 2500] }

\* cells that write no decimal number
OtherTexts ==
    { << >>, << "a", "b", "c" >>, << "n", "a", "n" >>, << "N", "a", "N" >>,
      << "i", "n", "f" >>, << "1", ".", "2", ".", "3" >>, << "1", "2", "a" >>,
      << "-" >> }

AmountTexts == {n.text : n \in Numerals} \cup OtherTexts

\* what may stand before and after the number in a cell
AmountPrefixes ==
    {<< >>, << RUPEE >>, << "$" >>, << "(" >>, << "-" >>, << " " >>,
     CR \o << " " >>, DEBIT \o << " " >>}

AmountSuffixes ==
    {<< >>, << ")" >>, << " " >> \o DR, << " " >> \o CR, DR, CR,
     << " ", "d", "r" >>, << " ", "c", "r" >>, << " " >> \o CREDIT,
     << " " >> \o DEBIT}

InitAmount ==
    /\ txns = {} /\ cats = {}
    /\ InitImport(InputPool, {}, [p \in Procs |-> << >>])
    /\ NoDupCall /\ NoNormCall
    /\ \/ amount_str = NaN
       \/ \E t \in AmountTexts, a \in AmountPrefixes, z \in AmountSuffixes :
             amount_str = a \o t \o z
    /\ amount_out = NotParsed

\* one call parse_single_amount(amount_str)
ParseAmount ==
    /\ ~amount_out.done
    /\ amount_out' = [done |-> TRUE,
                      kind |-> parse_single_amount(amount_str).kind,
                      value |-> parse_single_amount(amount_str).value]
    /\ UNCHANGED << txns, cats, importVars, call, answer, amount_str, normVars >>

NextAmount == ParseAmount

SpecAmount == InitAmount /\ [][NextAmount]_vars

\* C10 (as claimed): for every number n the cells RUPEE n, (n), n DR and
\* n CR parse to -n, -n, -n and +n.
C10_FourFormsAsClaimed ==
    amount_out.done =>
        \A n \in Numerals :
            /\ amount_str = << RUPEE >> \o n.text => amount_out.value = -n.value
            /\ amount_str = << "(" >> \o n.text \o << ")" >> => amount_out.value = -n.value
            /\ amount_str = n.text \o << " " >> \o DR => amount_out.value = -n.value
            /\ amount_str = n.text \o << " " >> \o CR => amount_out.value = n.value

\* C10 (amended): for every unsigned decimal number n the cell RUPEE n
\* parses to +n, and (n), n DR and n CR parse to -n, -n and +n.
C10_FourForms ==
    amount_out.done =>
        \A n \in Numerals :
            /\ amount_str = << RUPEE >> \o n.text => amount_out.value = n.value
            /\ amount_str = << "(" >> \o n.text \o << ")" >> => amount_out.value = -n.value
            /\ amount_str = n.text \o << " " >> \o DR => amount_out.value = -n.value
            /\ amount_str = n.text \o << " " >> \o CR => amount_out.value = n.value

\* C10 witness: the cell RUPEE 1,234.50 was parsed, to +1234.50.
C10_Witness ==
    /\ amount_out.done
    /\ amount_str = << RUPEE, "1", ",", "2", "3", "4", ".", "5", "0" >>
    /\ amount_out.value = 123450

\* C11: for every unsigned number n, n with a credit marker (CR, CREDIT)
\* parses to +n and n with a debit marker (DR, DEBIT) parses to -n, the
\* marker standing after the number or before it.
C11_MarkersSigned ==
    amount_out.done =>
        \A n \in Numerals :
            /\ \A m \in {CR, CREDIT} :
                  amount_str \in {n.text \o << " " >> \o m, n.text \o m,
                                  m \o << " " >> \o n.text}
                  => amount_out.kind = "finite" /\ amount_out.value = n.value
            /\ \A m \in {DR, DEBIT} :
                  amount_str \in {n.text \o << " " >> \o m, n.text \o m,
                                  m \o << " " >> \o n.text}
                  => amount_out.kind = "finite" /\ amount_out.value = -n.value

\* a signed decimal literal
IsNumber(s) == Float(s).ok /\ Float(s).kind = "finite"

\* C12: amount normalisation is total: every cell (missing or any text)
\* yields a number, never a null (not-a-number), and yields 0.0 whenever the
\* cleaned text is not a valid number.
C12_AmountTotal ==
    amount_out.done =>
        /\ amount_out.kind # "nan"
        /\ amount_str # NaN /\ ~IsNumber(CleanedAmount(amount_str))
           => amount_out.kind = "finite" /\ amount_out.value = 0
        /\ amount_str = NaN => amount_out.kind = "finite" /\ amount_out.value = 0

\* ------------------------------------------------------------------------
\* Date normalisation (utils.parse_dates.parse_single_date)
\* ------------------------------------------------------------------------
\* the datetime of a calendar date (at midnight)
Date(y, m, d) == [null |-> FALSE, year |-> y, month |-> m, day |-> d]

\* the pieces of s between the characters of seps
RECURSIVE Split(_, _)
Split(s, seps) ==
    IF \A i \in 1..Len(s) : s[i] \notin seps THEN << s >>
    ELSE LET i == CHOOSE k \in 1..Len(s) :
                     s[k] \in seps /\ \A j \in 1..(k - 1) : s[j] \notin seps
         IN << SubSeq(s, 1, i - 1) >> \o Split(SubSeq(s, i + 1, Len(s)), seps)

NonEmpty(s) == s # << >>

\* the month names %b and %B match (C locale), in any letter case
MonthAbbr ==
    << << "J", "a", "n" >>,
       << "F", "e", "b" >>,
       << "M", "a", "r" >>,
       << "A", "p", "r" >>,
       << "M", "a", "y" >>,
       << "J", "u", "n" >>,
       << "J", "u", "l" >>,
       << "A", "u", "g" >>,
       << "S", "e", "p" >>,
       << "O", "c", "t" >>,
       << "N", "o", "v" >>,
       << "D", "e", "c" >> >>

MonthFull ==
    << << "J", "a", "n", "u", "a", "r", "y" >>,
       << "F", "e", "b", "r", "u", "a", "r", "y" >>,
       << "M", "a", "r", "c", "h" >>,
       << "A", "p", "r", "i", "l" >>,
       << "M", "a", "y" >>,
       << "J", "u", "n", "e" >>,
       << "J", "u", "l", "y" >>,
       << "A", "u", "g", "u", "s", "t" >>,
       << "S", "e", "p", "t", "e", "m", "b", "e", "r" >>,
       << "O", "c", "t", "o", "b", "e", "r" >>,
       << "N", "o", "v", "e", "m", "b", "e", "r" >>,
       << "D", "e", "c", "e", "m", "b", "e", "r" >> >>

\* the regular expression of %d: 3[0-1]|[1-2]\d|0[1-9]|[1-9]| [1-9]
DayText(f) ==
    IF Len(f) = 1 THEN f[1] \in Digits \ {"0"}
    ELSE IF Len(f) = 2
    THEN IF f[1] = "3" THEN f[2] \in {"0", "1"}
         ELSE IF f[1] \in {"1", "2"} THEN f[2] \in Digits
         ELSE f[1] \in {"0", " "} /\ f[2] \in Digits \ {"0"}
    ELSE FALSE

\* the regular expression of %m: 1[0-2]|0[1-9]|[1-9]
MonthText(f) ==
    IF Len(f) = 1 THEN f[1] \in Digits \ {"0"}
    ELSE IF Len(f) = 2
    THEN IF f[1] = "1" THEN f[2] \in {"0", "1", "2"}
         ELSE f[1] = "0" /\ f[2] \in Digits \ {"0"}
    ELSE FALSE

\* the regular expression of %Y: four digits
YearText(f) == Len(f) = 4 /\ \A i \in 1..4 : f[i] \in Digits

\* the position of a name in a table of month names, 0 if it has none
MonthNamed(f, names) ==
    IF \E i \in 1..12 : Lower(names[i]) = Lower(f)
    THEN CHOOSE i \in 1..12 : Lower(names[i]) = Lower(f)
    ELSE 0

IsLeap(y) == (y % 4 = 0 /\ y % 100 # 0) \/ y % 400 = 0

DaysInMonth(y, m) ==
    IF m = 2 THEN (IF IsLeap(y) THEN 29 ELSE 28)
    ELSE IF m \in {4, 6, 9, 11} THEN 30
    ELSE 31

\* lines 578-588: the explicit formats, each a separator and three directives
formats_month_first ==
    << [sep |-> "/", fields |-> << "m", "d", "Y" >>],
       [sep |-> "/", fields |-> << "d", "m", "Y" >>],
       [sep |-> "-", fields |-> << "Y", "m", "d" >>],
       [sep |-> "-", fields |-> << "d", "m", "Y" >>],
       [sep |-> "/", fields |-> << "Y", "m", "d" >>],
       [sep |-> ".", fields |-> << "d", "m", "Y" >>],
       [sep |-> "-", fields |-> << "m", "d", "Y" >>],
       [sep |-> " ", fields |-> << "d", "b", "Y" >>],
       [sep |-> " ", fields |-> << "d", "B", "Y" >>] >>

formats ==
    << [sep |-> "/", fields |-> << "d", "m", "Y" >>],
       [sep |-> "/", fields |-> << "m", "d", "Y" >>],
       [sep |-> "-", fields |-> << "Y", "m", "d" >>],
       [sep |-> "-", fields |-> << "d", "m", "Y" >>],
       [sep |-> "/", fields |-> << "Y", "m", "d" >>],
       [sep |-> ".", fields |-> << "d", "m", "Y" >>],
       [sep |-> "-", fields |-> << "m", "d", "Y" >>],
       [sep |-> " ", fields |-> << "d", "b", "Y" >>],
       [sep |-> " ", fields |-> << "d", "B", "Y" >>] >>

\* datetime.strptime(s, fmt): the whole of s must match the format (white
\* space of the format matches any run of white space), and the fields
\* must make a date of the calendar; ok = FALSE is a ValueError
strptime(s, fmt) ==
    LET parts == IF fmt.sep = " " THEN SelectSeq(Split(s, Whitespace), NonEmpty)
                 ELSE Split(s, {fmt.sep})
        at(names) == parts[CHOOSE i \in 1..3 : fmt.fields[i] \in names]
        numeric == \E i \in 1..3 : fmt.fields[i] = "m"
        named == IF \E i \in 1..3 : fmt.fields[i] = "b" THEN MonthAbbr ELSE MonthFull
        matches == /\ Len(parts) = 3
                   /\ DayText(at({"d"}))
                   /\ YearText(at({"Y"}))
                   /\ IF numeric THEN MonthText(at({"m"}))
                      ELSE MonthNamed(at({"b", "B"}), named) # 0
        day == DigitsValue(Without(at({"d"}), {" "}))
        year == DigitsValue(at({"Y"}))
        month == IF numeric THEN DigitsValue(at({"m"}))
                 ELSE MonthNamed(at({"b", "B"}), named)
    IN IF matches /\ year >= 1 /\ day <= DaysInMonth(year, month)
       THEN [ok |-> TRUE, value |-> Date(year, month, day)]
       ELSE [ok |-> FALSE, value |-> NaT]

\* the formats that accept s
Accepting(s) == {i \in 1..Len(formats) : strptime(s, formats[i]).ok}

\* a mutation: a string no format accepts is a missing date at once
parse_single_date_no_fallback(date, permissive) ==
    IF date = NaN THEN [value |-> NaT, consulted |-> FALSE]
    ELSE LET s == Strip(date)
         IN IF Accepting(s) # {}
            THEN [value |-> strptime(s, formats[
                     CHOOSE i \in Accepting(s) : \A j \in Accepting(s) : i <= j]).value,
                  consulted |-> FALSE]
            ELSE [value |-> NaT, consulted |-> FALSE]

\* parse_single_date(date_str), lines 570-600; permissive is what
\* pd.to_datetime(date_str, errors='coerce') gives for this string (NaT when
\* it rejects it), consulted whether it was called
parse_single_date(date, permissive) ==
    IF date = NaN THEN [value |-> NaT, consulted |-> FALSE]
    ELSE LET s == Strip(date)
         IN IF Accepting(s) # {}
            THEN [value |-> strptime(s, formats[
                     CHOOSE i \in Accepting(s) : \A j \in Accepting(s) : i <= j]).value,
                  consulted |-> FALSE]
            ELSE [value |-> permissive, consulted |-> TRUE]

\* the ten digits, to write numbers
DigitChars == << "0", "1", "2", "3", "4", "5", "6", "7", "8", "9" >>

\* a day or month number as text, with or without its leading zero
TwoDigits(n, padded) ==
    IF n >= 10 \/ padded
    THEN << DigitChars[(n \div 10) + 1], DigitChars[(n % 10) + 1] >>
    ELSE << DigitChars[n + 1] >>

FourDigits(y) ==
    << DigitChars[(y \div 1000) + 1], DigitChars[((y \div 100) % 10) + 1],
       DigitChars[((y \div 10) % 10) + 1], DigitChars[(y % 10) + 1] >>

\* one field of a date written in a format
WriteField(name, y, m, d, padded) ==
    IF name = "d" THEN TwoDigits(d, padded)
    ELSE IF name = "m" THEN TwoDigits(m, padded)
    ELSE IF name = "b" THEN MonthAbbr[m]
    ELSE IF name = "B" THEN MonthFull[m]
    ELSE FourDigits(y)

\* the date y-m-d written in the format fmt
WriteDate(fmt, y, m, d, padded) ==
    WriteField(fmt.fields[1], y, m, d, padded) \o << fmt.sep >>
    \o WriteField(fmt.fields[2], y, m, d, padded) \o << fmt.sep >>
    \o WriteField(fmt.fields[3], y, m, d, padded)

\* the formats as the statement's author knows them (lines 578-588)
WrittenFormats ==
    << [sep |-> "/", fields |-> << "d", "m", "Y" >>],
       [sep |-> "/", fields |-> << "m", "d", "Y" >>],
       [sep |-> "-", fields |-> << "Y", "m", "d" >>],
       [sep |-> "-", fields |-> << "d", "m", "Y" >>],
       [sep |-> "/", fields |-> << "Y", "m", "d" >>],
       [sep |-> ".", fields |-> << "d", "m", "Y" >>],
       [sep |-> "-", fields |-> << "m", "d", "Y" >>],
       [sep |-> " ", fields |-> << "d", "b", "Y" >>],
       [sep |-> " ", fields |-> << "d", "B", "Y" >>] >>

Days == {1, 4, 12, 13, 29, 31}

Months == {1, 2, 4, 10, 12}

Years == {2024, 2025}

\* cells that are written in none of the formats
OtherDateTexts ==
    { << >>, << "a", "b", "c" >>,
      << "2", "1", "/", "1", "0", "/", "2", "5" >>,
      << "O", "c", "t", " ", "2", "1", ",", " ", "2", "0", "2", "5" >>,
      << " ", "2", "1", "/", "1", "0", "/", "2", "0", "2", "5", " " >>,
      << "2", "1", " ", " ", "o", "c", "t", " ", "2", "0", "2", "5" >>,
      << "1", "0", "/", " ", "5", "/", "2", "0", "2", "5" >> }

\* what pd.to_datetime may give for a string it is asked about
PermissiveResults == {NaT, Date(2025, 10, 21)}

InitDate ==
    /\ txns = {} /\ cats = {}
    /\ InitImport(InputPool, {}, [p \in Procs |-> << >>])
    /\ NoDupCall /\ NoAmountCall /\ NoUpload /\ NoOtherCall
    /\ \/ \E i \in 1..Len(WrittenFormats), y \in Years, m \in Months, d \in Days,
             padded \in BOOLEAN :
             /\ date_str = WriteDate(WrittenFormats[i], y, m, d, padded)
             /\ date_written = [fmt |-> i, year |-> y, month |-> m, day |-> d]
       \/ /\ date_str \in OtherDateTexts \cup {NaN}
          /\ date_written = NotWritten
    /\ date_out = NotDated

\* one call parse_single_date(date_str)
ParseDate ==
    /\ ~date_out.done
    /\ \E permissive \in PermissiveResults :
          date_out' = [done |-> TRUE,
                       value |-> parse_single_date(date_str, permissive).value,
                       consulted |-> parse_single_date(date_str, permissive).consulted,
                       permissive |-> permissive]
    /\ UNCHANGED << txns, cats, importVars, call, answer, amount_str, amount_out,
                    date_str, date_written, pageVars, otherVars >>

NextDate == ParseDate

SpecDate == InitDate /\ [][NextDate]_vars

\* the date the cell was written from is a date of the calendar
WrittenValid ==
    /\ date_written.fmt # 0
    /\ date_written.day <= DaysInMonth(date_written.year, date_written.month)

WrittenDate == Date(date_written.year, date_written.month, date_written.day)

\* C13 (as claimed): a string correctly written in any of the nine formats
\* parses to the calendar date it was written from.
C13_FormatsAgreeAsClaimed ==
    (date_out.done /\ WrittenValid) => date_out.value = WrittenDate

\* C13 (amended): a string correctly written in one of the nine formats
\* parses to the calendar date it was written from, unless it is written
\* month first (MM/DD/YYYY, MM-DD-YYYY) with a day of at most 12 that
\* differs from the month.
C13_FormatsAgree ==
    ( /\ date_out.done /\ WrittenValid
      /\ date_written.fmt \in {2, 7}
         => date_written.day > 12 \/ date_written.day = date_written.month )
    => date_out.value = WrittenDate

\* C13 witness: 10/13/2025, written month first, was parsed to 13 October.
C13_Witness ==
    /\ date_out.done
    /\ date_written = [fmt |-> 2, year |-> 2025, month |-> 10, day |-> 13]
    /\ date_out.value = Date(2025, 10, 13)

\* format i, as listed, accepts the stripped cell
Accepts(i) == strptime(Strip(date_str), WrittenFormats[i]).ok

\* C14: the nine formats are tried in the listed order and the first that
\* accepts the string gives the result, so a string that DD/MM/YYYY and
\* MM/DD/YYYY both accept is read day first; the permissive parser is
\* consulted exactly when all nine reject the string, and the result is
\* null only when it rejects the string too.
C14_FirstFormatWins ==
    (date_out.done /\ date_str # NaN) =>
        /\ \A i \in 1..Len(WrittenFormats) :
              (Accepts(i) /\ \A j \in 1..(i - 1) : ~Accepts(j))
              => date_out.value = strptime(Strip(date_str), WrittenFormats[i]).value
        /\ (Accepts(1) /\ Accepts(2))
           => /\ date_out.value.day
                    = DigitsValue(Without(Split(Strip(date_str), {"/"})[1], {" "}))
              /\ date_out.value.month
                    = DigitsValue(Split(Strip(date_str), {"/"})[2])
        /\ date_out.consulted <=> \A i \in 1..Len(WrittenFormats) : ~Accepts(i)
        /\ date_out.consulted => date_out.value = date_out.permissive
        /\ date_out.value = NaT => date_out.consulted /\ date_out.permissive = NaT

\* C14 witness: 04/12/2025, which both slash formats accept, was read as
\* 4 December.
C14_Witness ==
    /\ date_out.done
    /\ date_str = << "0", "4", "/", "1", "2", "/", "2", "0", "2", "5" >>
    /\ Accepts(1) /\ Accepts(2)
    /\ date_out.value = Date(2025, 12, 4)
    /\ ~date_out.consulted

\* ------------------------------------------------------------------------
\* Column mapping (utils.auto_detect_column_mapping)
\* ------------------------------------------------------------------------
\* the canonical fields in declaration order
Fields == << "date", "description", "amount", "merchant", "account", "category" >>

\* lines 444-469: the patterns of each field, in declaration order
field_patterns ==
    <<
       [field |-> "date", patterns |-> <<
          << "d", "a", "t", "e" >>,
          << "t", "r", "a", "n", "s", "a", "c", "t", "i", "o", "n", "_", "d", "a", "t", "e" >>,
          << "t", "x", "n", "_", "d", "a", "t", "e" >>,
          << "p", "o", "s", "t", "i", "n", "g", "_", "d", "a", "t", "e" >>,
          << "v", "a", "l", "u", "e", "_", "d", "a", "t", "e" >>,
          << "t", "x", "n", "_", "d", "a", "t", "e" >>,
          << "t", "r", "a", "n", "s", "_", "d", "a", "t", "e" >>,
          << "t", "r", "a", "n", "s", "a", "c", "t", "i", "o", "n", "_", "d", "a", "t", "e" >>,
          << "d", "t" >>, << "d", "a", "t", "e", "t", "i", "m", "e" >> >>],
       [field |-> "description", patterns |-> <<
          << "d", "e", "s", "c", "r", "i", "p", "t", "i", "o", "n" >>,
          << "m", "e", "r", "c", "h", "a", "n", "t" >>,
          << "n", "a", "r", "r", "a", "t", "i", "o", "n" >>,
          << "d", "e", "t", "a", "i", "l", "s" >>,
          << "p", "a", "r", "t", "i", "c", "u", "l", "a", "r", "s" >>,
          << "p", "a", "r", "t", "y" >>, << "p", "a", "y", "e", "e" >>,
          << "m", "e", "m", "o" >>,
          << "r", "e", "f", "e", "r", "e", "n", "c", "e" >>,
          << "r", "e", "f" >>, << "r", "e", "m", "a", "r", "k" >>,
          << "n", "o", "t", "e" >> >>],
       [field |-> "amount", patterns |-> <<
          << "a", "m", "o", "u", "n", "t" >>, << "v", "a", "l", "u", "e" >>,
          << "d", "e", "b", "i", "t" >>, << "c", "r", "e", "d", "i", "t" >>,
          << "t", "r", "a", "n", "s", "a", "c", "t", "i", "o", "n", "_", "a", "m", "o", "u", "n", "t" >>,
          << "t", "x", "n", "_", "a", "m", "o", "u", "n", "t" >>,
          << "a", "m", "t" >>, << "s", "u", "m" >>,
          << "t", "o", "t", "a", "l" >>,
          << "w", "i", "t", "h", "d", "r", "a", "w", "a", "l" >>,
          << "d", "e", "p", "o", "s", "i", "t" >> >>],
       [field |-> "merchant", patterns |-> <<
          << "m", "e", "r", "c", "h", "a", "n", "t" >>,
          << "v", "e", "n", "d", "o", "r" >>, << "s", "h", "o", "p" >>,
          << "s", "t", "o", "r", "e" >>,
          << "s", "u", "p", "p", "l", "i", "e", "r" >>,
          << "p", "a", "r", "t", "y", "_", "n", "a", "m", "e" >>,
          << "m", "e", "r", "c", "h", "a", "n", "t", "_", "n", "a", "m", "e" >>,
          << "b", "r", "a", "n", "d" >>,
          << "c", "o", "m", "p", "a", "n", "y" >>,
          << "b", "u", "s", "i", "n", "e", "s", "s" >> >>],
       [field |-> "account", patterns |-> <<
          << "a", "c", "c", "o", "u", "n", "t" >>,
          << "a", "c", "c", "o", "u", "n", "t", "_", "n", "o" >>,
          << "a", "c", "c", "o", "u", "n", "t", "_", "n", "u", "m", "b", "e", "r" >>,
          << "a", "c", "c", "_", "n", "o" >>,
          << "a", "c", "c", "_", "n", "u", "m", "b", "e", "r" >>,
          << "b", "a", "n", "k", "_", "a", "c", "c", "o", "u", "n", "t" >>,
          << "a", "c", "c", "o", "u", "n", "t", "_", "n", "a", "m", "e" >>,
          << "a", "c", "c", "t" >> >>],
       [field |-> "category", patterns |-> <<
          << "c", "a", "t", "e", "g", "o", "r", "y" >>,
          << "t", "y", "p", "e" >>, << "c", "l", "a", "s", "s" >>,
          << "g", "r", "o", "u", "p" >>, << "t", "a", "g" >>,
          << "c", "l", "a", "s", "s", "i", "f", "i", "c", "a", "t", "i", "o", "n" >>,
          << "e", "x", "p", "e", "n", "s", "e", "_", "t", "y", "p", "e" >>,
          << "i", "n", "c", "o", "m", "e", "_", "t", "y", "p", "e" >>,
          << "c", "a", "t" >> >>] >>

\* line 441: [col.lower().strip() for col in columns]
columns_lower(columns) == [i \in 1..Len(columns) |-> Strip(Lower(columns[i]))]

\* line 476: any(pattern in col for pattern in patterns)
MatchesAny(col, patterns) == \E k \in 1..Len(patterns) : Contains(col, patterns[k])

\* lines 475-478: the 1-based position of the first column that matches, 0
\* if none does
FirstMatching(cols, patterns) ==
    IF \E i \in 1..Len(cols) : MatchesAny(cols[i], patterns)
    THEN CHOOSE i \in 1..Len(cols) :
            /\ MatchesAny(cols[i], patterns)
            /\ \A j \in 1..(i - 1) : ~MatchesAny(cols[j], patterns)
    ELSE 0

\* auto_detect_column_mapping(columns), lines 441-480: a dict from the fields
\* that found a column to that column's 1-based position
auto_detect_column_mapping(columns) ==
    LET detected == {k \in 1..Len(field_patterns) :
                        FirstMatching(columns_lower(columns),
                                      field_patterns[k].patterns) # 0}
    IN [f \in {field_patterns[k].field : k \in detected} |->
           FirstMatching(columns_lower(columns),
                         field_patterns[CHOOSE k \in detected :
                                            field_patterns[k].field = f].patterns)]

\* ------------------------------------------------------------------------
\* Normalisation of an upload (utils.parse_and_standardize_dataframe)
\* ------------------------------------------------------------------------
\* the standard column names as header text
CanonicalText ==
    ("date" :> << "d", "a", "t", "e" >>)
    @@ ("description" :> << "d", "e", "s", "c", "r", "i", "p", "t", "i", "o", "n" >>)
    @@ ("amount" :> << "a", "m", "o", "u", "n", "t" >>)
    @@ ("merchant" :> << "m", "e", "r", "c", "h", "a", "n", "t" >>)
    @@ ("account" :> << "a", "c", "c", "o", "u", "n", "t" >>)
    @@ ("category" :> << "c", "a", "t", "e", "g", "o", "r", "y" >>)

IsLetter(c) == UpperChar(c) # LowerChar(c)

\* str.title(): a letter after a letter is lower case, any other upper case
RECURSIVE TitleFrom(_, _)
TitleFrom(s, after_letter) ==
    IF s = << >> THEN << >>
    ELSE << IF after_letter THEN LowerChar(Head(s)) ELSE UpperChar(Head(s)) >>
         \o TitleFrom(Tail(s), IsLetter(Head(s)))

Title(s) == TitleFrom(s, FALSE)

\* replace(r'\s+', ' ', regex=True): a run of white space becomes one space
RECURSIVE OneSpace(_)
OneSpace(s) ==
    IF s = << >> THEN << >>
    ELSE IF Head(s) \in Whitespace THEN << " " >> \o OneSpace(LStrip(Tail(s)))
    ELSE << Head(s) >> \o OneSpace(Tail(s))

\* clean_text_field on one cell, line 655; a missing cell stays missing
clean_text_field(cell) ==
    IF cell = NaN THEN NaN ELSE OneSpace(Title(Strip(cell)))

\* lines 512-528: the name of a column after the renaming; column_mapping
\* is keyed by header, so of the fields that select the same header the
\* last in declaration order names it
Renamed(header, selection) ==
    LET claiming == {k \in 1..Len(Fields) :
                        Truthy(selection[Fields[k]]) /\ selection[Fields[k]] = header}
    IN IF claiming = {} THEN header
       ELSE CanonicalText[Fields[CHOOSE k \in claiming : \A j \in claiming : j <= k]]

\* the positions of the columns that carry the standard name of field f
ColumnsNamed(f, columns, selection) ==
    {i \in 1..Len(columns) : Renamed(columns[i], selection) = CanonicalText[f]}

\* line 531: the standard names found among the renamed columns
mapped_cols(columns, selection) ==
    LET Present(f) == ColumnsNamed(f, columns, selection) # {}
    IN SelectSeq(Fields, Present)

\* lines 538-556 on one row: the parsed cells and the metadata columns
NormalizedRow(row, columns, selection, permissive) ==
    LET kept == {Fields[k] : k \in 1..Len(Fields)}
                \cap {f \in DOMAIN CanonicalText :
                         ColumnsNamed(f, columns, selection) # {}}
        cell(f) == row[CHOOSE i \in ColumnsNamed(f, columns, selection) : TRUE]
    IN [f \in kept |->
           IF f = "date" THEN parse_single_date(cell(f), permissive).value
           ELSE IF f = "amount" THEN parse_single_amount(cell(f))
           ELSE clean_text_field(cell(f))]
       @@ ("import_timestamp" :> "now") @@ ("source_file" :> "uploaded_statement")
       @@ ("is_imported" :> TRUE)

\* a mutation: rows without a date are dropped
parse_and_standardize_dataframe_dropna(table, selection, permissive) ==
    LET HasDate(r) == "date" \in DOMAIN r => ~r["date"].null
        rows == [i \in 1..Len(table.rows) |->
                    NormalizedRow(table.rows[i], table.columns, selection,
                                  permissive[i])]
    IN [raises |-> \E f \in DOMAIN CanonicalText :
                      Cardinality(ColumnsNamed(f, table.columns, selection)) > 1,
        columns |-> mapped_cols(table.columns, selection),
        rows |-> SelectSeq(rows, HasDate)]

\* parse_and_standardize_dataframe(df, date_col, ..., category_col), lines
\* 507-558; permissive[i] is what pd.to_datetime gives for the date cell of
\* row i.  Two columns of one standard name make df_parsed[name] a table,
\* on which the cell parsers raise.
parse_and_standardize_dataframe(table, selection, permissive) ==
    [raises |-> \E f \in DOMAIN CanonicalText :
                   Cardinality(ColumnsNamed(f, table.columns, selection)) > 1,
     columns |-> mapped_cols(table.columns, selection),
     rows |-> [i \in 1..Len(table.rows) |->
                  NormalizedRow(table.rows[i], table.columns, selection,
                                permissive[i])]]

\* ------------------------------------------------------------------------
\* The import page (app.show_import) on one upload
\* ------------------------------------------------------------------------
MaxDfRows == 2

\* the header rows of the uploads: a date, a text, an amount and a second
\* text column each
Headers ==
    << << << "D", "a", "t", "e" >>,
          << "N", "a", "r", "r", "a", "t", "i", "o", "n" >>,
          << "A", "m", "o", "u", "n", "t" >>,
          << "T", "y", "p", "e" >> >>,
       << << "T", "x", "n", " ", "D", "a", "t", "e" >>,
          << "M", "e", "r", "c", "h", "a", "n", "t" >>,
          << "D", "e", "b", "i", "t", " ", "A", "m", "o", "u", "n", "t" >>,
          << "C", "a", "t", "e", "g", "o", "r", "y" >> >>,
       << << "V", "a", "l", "u", "e", " ", "D", "a", "t", "e" >>,
          << "P", "a", "r", "t", "i", "c", "u", "l", "a", "r", "s" >>,
          << "A", "m", "t" >>,
          << "T", "a", "g" >> >>,
       << << "P", "o", "s", "t", "i", "n", "g", " ", "D", "a", "t", "e" >>,
          << "D", "e", "t", "a", "i", "l", "s" >>,
          << "V", "a", "l", "u", "e" >>,
          << "a", "m", "o", "u", "n", "t" >> >> >>

\* the rows of the uploads
RowPool ==
    << << << "2", "1", "/", "1", "0", "/", "2", "0", "2", "5" >>,
         << " ", " ", "s", "w", "i", "g", "g", "y", " ", " ", " ", "o", "r", "d", "e", "r", " " >>,
         << "1", ",", "2", "3", "4", ".", "5", "0", " ", "D", "R" >>,
         << "f", "o", "o", "d" >> >>,
       << << "a", "b", "c" >>,
         << "U", "P", "I", " ", "p", "a", "y", "m", "e", "n", "t" >>,
         << "a", "b", "c" >>,
         << "r", "e", "n", "t" >> >>,
       << NaN,
         NaN,
         NaN,
         NaN >>,
       << << "2", "0", "2", "5", "-", "1", "0", "-", "2", "2" >>,
         << "S", "a", "l", "a", "r", "y", " ", "c", "r", "e", "d", "i", "t" >>,
         << "7", "5", ",", "0", "0", "0", " ", "C", "R" >>,
         << >> >> >>

\* the tables made of at most MaxDfRows rows of the pool
Uploads ==
    {[columns |-> Headers[h], rows |-> [i \in 1..Len(b) |-> RowPool[b[i]]]] :
        h \in 1..Len(Headers),
        b \in UNION {[1..k -> 1..Len(RowPool)] : k \in 0..MaxDfRows}}

\* lines 545-588: the default of each selectbox, [""] + columns at the
\* position auto_mappings gives (0, the empty option, without one)
AutoSelection(columns, auto) ==
    [f \in DOMAIN NoSelection |->
        IF f \in DOMAIN auto THEN columns[auto[f]] ELSE << >>]

\* the selections a user may confirm: the defaults, or for each field the
\* empty option or the column of its kind
Selections(columns, auto) ==
    {AutoSelection(columns, auto)}
    \cup {[date |-> d, description |-> t, amount |-> a, merchant |-> m,
           account |-> << >>, category |-> c] :
            d \in {<< >>, columns[1]}, t \in {<< >>, columns[2]},
            a \in {<< >>, columns[3]}, m \in {<< >>, columns[2]},
            c \in {<< >>, columns[4]}}

\* a mutation: the gate looks at the date column only
MappingCompleteDateOnly(selection) == Truthy(selection.date)

\* line 596: not (not date_col or not desc_col or not amount_col)
MappingComplete(selection) ==
    Truthy(selection.date) /\ Truthy(selection.description) /\ Truthy(selection.amount)

\* lines 624-786, the preview of the parsed rows, raises when it reads a
\* column the table lacks (df_parsed['amount'], row['description'],
\* row['date']) or slices a missing description
PreviewRaises(table) ==
    LET has(f) == \E k \in 1..Len(table.columns) : table.columns[k] = f
    IN \/ ~has("amount")
       \/ /\ Len(table.rows) > 0
          /\ \/ ~has("description") \/ ~has("date")
             \/ \E i \in 1..Len(table.rows) : table.rows[i]["description"] = NaN

\* date.toordinal()
LeapsBefore(y) == ((y - 1) \div 4) - ((y - 1) \div 100) + ((y - 1) \div 400)

RECURSIVE DaysBeforeMonth(_, _)
DaysBeforeMonth(y, m) ==
    IF m = 1 THEN 0 ELSE DaysBeforeMonth(y, m - 1) + DaysInMonth(y, m - 1)

ToOrdinal(date) ==
    365 * (date.year - 1) + LeapsBefore(date.year)
    + DaysBeforeMonth(date.year, date.month) + date.day

\* the missing date among the datetimes of the importer: no day of the
\* calendar, and far from all
NaTDay == -1000000

\* a normalized row as save_transactions_to_db_atomic reads it: datetimes
\* in half days, amounts in 1/100 units
ImportRow(r) ==
    [f \in DOMAIN r |->
        IF f = "date"
        THEN (IF r[f].null THEN NaTDay ELSE DAY * ToOrdinal(r[f]))
        ELSE IF f = "amount" THEN r[f].value
        ELSE r[f]]

\* a file was uploaded and read (lines 419-466)
InitPage ==
    /\ txns = {} /\ cats = {}
    /\ InitImport(InputPool, {}, [p \in Procs |-> << >>])
    /\ NoDupCall /\ NoAmountCall /\ NoDateCall /\ NoOtherCall
    /\ page = "uploaded"
    /\ df \in Uploads
    /\ auto_mappings = << >>
    /\ column_mapping = NoSelection
    /\ parsed_data = NoTable

\* line 536
AutoDetect ==
    /\ page = "uploaded"
    /\ auto_mappings' = auto_detect_column_mapping(df.columns)
    /\ page' = "form"
    /\ UNCHANGED << txns, cats, importVars, call, answer, amount_str, amount_out,
                    dateVars, otherVars, df, column_mapping, parsed_data >>

\* lines 594-786: "Confirm Mapping & Parse Data" was pressed with a
\* selection; the gate, the normalisation and the preview of its rows
ConfirmMapping ==
    /\ page = "form"
    /\ \E selection \in Selections(df.columns, auto_mappings),
          permissive \in [1..Len(df.rows) -> PermissiveResults] :
          LET parsed == parse_and_standardize_dataframe(df, selection, permissive)
              table == [columns |-> parsed.columns, rows |-> parsed.rows]
          IN /\ column_mapping' = selection
             /\ IF ~MappingComplete(selection)
                THEN page' = "blocked" /\ UNCHANGED parsed_data
                ELSE IF parsed.raises
                THEN page' = "crashed" /\ UNCHANGED parsed_data
                ELSE /\ parsed_data' = table
                     /\ page' = IF PreviewRaises(table) THEN "crashed" ELSE "parsed"
    /\ UNCHANGED << txns, cats, importVars, call, answer, amount_str, amount_out,
                    dateVars, otherVars, df, auto_mappings >>

\* the option "Create New Category" of the category selectbox (line 688)
CreateNewCategory == << "+" >>

\* datetime.now().date(), line 706
Today == DAY * ToOrdinal(Date(2025, 10, 23))

\* session_state.transaction_edits holds no edit
NoEdits == \A i \in 1..Len(edits[1]) : DOMAIN edits[1][i] = {}

\* line 640 and lines 803, 871: transaction_edits = {}
ClearedEdits == [i \in 1..Len(parsed_data.rows) |-> NoEdit]

\* transaction_edits as the importer reads it, before the first edit too
SessionEdits == IF Len(edits[1]) = Len(parsed_data.rows) THEN edits[1] ELSE ClearedEdits

\* lines 678-728: what the edit form of row i shows before the user types
FormDefaults(i) ==
    LET row == ImportRow(parsed_data.rows[i])
        edit == SessionEdits[i]
        existing_categories == {c.name : c \in ReadCommitted(cats)}
        current_merchant == Get(edit, "merchant", Get(row, "merchant", << >>))
        current_category == Get(edit, "category", Get(row, "category", << >>))
        current_date == Get(edit, "date", row["date"])
        current_amount == Get(edit, "amount", row["amount"])
    IN [merchant |-> IF Truthy(current_merchant) THEN current_merchant
                     ELSE Get(row, "merchant", << >>),
        category |-> IF ~Truthy(current_category) THEN << >>
                     ELSE IF current_category \in existing_categories
                     THEN current_category
                     ELSE CreateNewCategory,
        date |-> IF current_date = NaTDay THEN Today ELSE current_date,
        amount |-> IF current_amount # 0 THEN current_amount ELSE row["amount"]]

\* lines 731-742: "Save Changes" of the form of row i, submitted as it is
\* shown, stores its edit
SaveChanges ==
    /\ page = "parsed"
    /\ \E i \in 1..Len(parsed_data.rows) :
          LET shown == FormDefaults(i)
          IN edits' = [edits EXCEPT ![1] =
                [SessionEdits EXCEPT ![i] =
                   [merchant |-> shown.merchant,
                    category |-> IF shown.category # CreateNewCategory
                                 THEN shown.category ELSE << >>,
                    date |-> shown.date,
                    amount |-> shown.amount,
                    is_new_category |-> shown.category = CreateNewCategory]]]
    /\ UNCHANGED << txns, cats, pc, df_parsed, unique_categories, cat_name,
                    category_map, new_categories, idx, pending, success_count,
                    error_count, warnings, staged, raised, outcome, call,
                    answer, amount_str, amount_out, dateVars, otherVars,
                    pageVars >>

\* lines 746-750: "Reset" of an edited row deletes its edit
ResetEdit ==
    /\ page = "parsed"
    /\ \E i \in 1..Len(edits[1]) :
          /\ DOMAIN edits[1][i] # {}
          /\ edits' = [edits EXCEPT ![1][i] = NoEdit]
    /\ UNCHANGED << txns, cats, pc, df_parsed, unique_categories, cat_name,
                    category_map, new_categories, idx, pending, success_count,
                    error_count, warnings, staged, raised, outcome, call,
                    answer, amount_str, amount_out, dateVars, otherVars,
                    pageVars >>

\* lines 869-874: "Cancel & Reset" clears all edits
CancelReset ==
    /\ page = "parsed"
    /\ page' = "cancelled"
    /\ edits' = [edits EXCEPT ![1] = ClearedEdits]
    /\ UNCHANGED << txns, cats, pc, df_parsed, unique_categories, cat_name,
                    category_map, new_categories, idx, pending, success_count,
                    error_count, warnings, staged, raised, outcome, call,
                    answer, amount_str, amount_out, dateVars, otherVars, df,
                    auto_mappings, column_mapping, parsed_data >>

\* lines 795-799: "Save All Transactions" calls
\* save_transactions_to_db_atomic(df_parsed, transaction_edits)
SaveAll ==
    /\ page = "parsed"
    /\ page' = "saving"
    /\ pc' = [pc EXCEPT ![1] = "start"]
    /\ df_parsed' = [df_parsed EXCEPT ![1] =
                        [i \in 1..Len(parsed_data.rows) |-> ImportRow(parsed_data.rows[i])]]
    /\ edits' = [edits EXCEPT ![1] = SessionEdits]
    /\ UNCHANGED << txns, cats, unique_categories, cat_name, category_map,
                    new_categories, idx, pending, success_count, error_count,
                    warnings, staged, raised, outcome, call, answer, amount_str,
                    amount_out, dateVars, otherVars, df, auto_mappings,
                    column_mapping,
                    parsed_data >>

\* lines 801-866: the outcome of the import is shown; the edits are cleared
\* after a success
ShowResult ==
    /\ page = "saving" /\ pc[1] = "done"
    /\ IF success_count[1] > 0
       THEN /\ page' = "imported"
            /\ edits' = [edits EXCEPT ![1] = ClearedEdits]
       ELSE /\ page' = "import_failed"
            /\ UNCHANGED edits
    /\ UNCHANGED << txns, cats, pc, df_parsed, unique_categories, cat_name,
                    category_map, new_categories, idx, pending, success_count,
                    error_count, warnings, staged, raised, outcome, call,
                    answer, amount_str, amount_out, dateVars, otherVars, df,
                    auto_mappings, column_mapping, parsed_data >>

NextPage ==
    \/ AutoDetect
    \/ ConfirmMapping
    \/ SaveAll
    \/ ShowResult
    \/ \E p \in Procs :
          \/ Begin(p)
          \/ FindCategory(p)
          \/ CreateCategory(p)
          \/ ProcessRow(p)
          \/ CommitImport(p)

\* a run of the page in which no row is edited
SpecPage == InitPage /\ [][NextPage]_vars

\* a run of the page with the edit forms and the reset buttons
NextEdit ==
    \/ NextPage
    \/ SaveChanges
    \/ ResetEdit
    \/ CancelReset

SpecEdit == InitPage /\ [][NextEdit]_vars

\* parse_and_standardize_dataframe returned a table for the upload
Normalized == parsed_data # NoTable

\* column k of the upload, and no other, became the standard column f
OnlySource(f, k) == ColumnsNamed(f, df.columns, column_mapping) = {k}

\* C15: the normalized table has exactly one row per row of the upload, in
\* the same order (row i is made of the cells of row i), and a row whose
\* date is null or whose amount is 0.0 is kept.
C15_OneRowPerRow ==
    Normalized =>
        /\ Len(parsed_data.rows) = Len(df.rows)
        /\ \A i \in 1..Len(df.rows) :
              i \in 1..Len(parsed_data.rows) =>
                /\ OnlySource("amount", 3)
                   => parsed_data.rows[i]["amount"] = parse_single_amount(df.rows[i][3])
                /\ OnlySource("description", 2)
                   => parsed_data.rows[i]["description"]
                         = clean_text_field(df.rows[i][2])
                /\ OnlySource("category", 4)
                   => parsed_data.rows[i]["category"] = clean_text_field(df.rows[i][4])
                /\ (OnlySource("date", 1) /\ df.rows[i][1] = NaN)
                   => parsed_data.rows[i]["date"] = NaT

\* C15 witness: a table of two rows was normalized whose first row has a
\* date and an amount that do not parse; both rows are there, in order.
C15_Witness ==
    /\ Normalized
    /\ df.rows = << RowPool[2], RowPool[1] >>
    /\ Len(parsed_data.rows) = 2
    /\ OnlySource("date", 1) /\ OnlySource("amount", 3)
    /\ parsed_data.rows[1]["date"] = NaT
    /\ parsed_data.rows[1]["amount"] = Zero
    /\ parsed_data.rows[2]["date"] = Date(2025, 10, 21)
    /\ parsed_data.rows[2]["amount"].value = -123450

\* the fields, in declaration order, that have a pattern in header i
FieldsMatching(i) ==
    {k \in 1..Len(field_patterns) :
        MatchesAny(columns_lower(df.columns)[i], field_patterns[k].patterns)}

\* C16: the detected mapping gives no header to more than one field; a
\* header with patterns of several fields goes to the first of them in
\* declaration order only.
C16_HeaderClaimedOnce ==
    page # "uploaded" =>
        \A i \in 1..Len(df.columns) :
            LET claimed == {f \in DOMAIN auto_mappings : auto_mappings[f] = i}
            IN /\ Cardinality(claimed) <= 1
               /\ \A f \in claimed :
                     f = field_patterns[CHOOSE k \in FieldsMatching(i) :
                                           \A j \in FieldsMatching(i) : k <= j].field

\* normalisation or persistence ran for the upload
Processed ==
    \/ page \in {"parsed", "crashed", "saving", "imported", "import_failed"}
    \/ Normalized
    \/ pc[1] # "off" \/ idx[1] # 0 \/ txns # {} \/ cats # {}

\* the three required selections as the form confirmed them
RequiredMapped ==
    /\ column_mapping.date # << >>
    /\ column_mapping.description # << >>
    /\ column_mapping.amount # << >>

\* C17: normalisation and persistence run only for a confirmed mapping
\* with a header for each of date, description and amount; with one of
\* them unmapped the import is blocked before any row is processed.
C17_MappingGate ==
    /\ Processed => RequiredMapped
    /\ (page \notin {"uploaded", "form"} /\ ~RequiredMapped)
       => page = "blocked" /\ ~Processed

\* C17 witness: the form was confirmed without an amount column for an
\* upload with rows, and the import is blocked.
C17_Witness ==
    /\ page = "blocked"
    /\ column_mapping.date # << >> /\ column_mapping.description # << >>
    /\ column_mapping.amount = << >>
    /\ Len(df.rows) = 2
    /\ ~Processed

\* ------------------------------------------------------------------------
\* Properties of the row loop of the atomic importer
\* ------------------------------------------------------------------------
\* the records import p has added to its session or committed
RecordsOf(p) ==
    {pending[p][k] : k \in 1..Len(pending[p])} \cup {t \in txns : t.by = p}

\* C18: the pass of the row loop over a row whose resolved amount is 0, or
\* that the duplicate heuristic flags, changes neither success_count nor
\* error_count and adds nothing to the session, and no such row is ever
\* among the persisted records.
C18_SkippedRowsUncounted ==
    [][\A p \in Procs :
          /\ ( /\ pc[p] = "rows" /\ idx'[p] = idx[p] + 1
               /\ \/ RowAmount(p, idx[p] + 1) = 0
                  \/ (idx[p] + 1) \in (warnings'[p] \ warnings[p]) )
             => /\ success_count'[p] = success_count[p]
                /\ error_count'[p] = error_count[p]
                /\ pending'[p] = pending[p]
                /\ txns' = txns
          /\ \A t \in txns' :
                t.by = p => RowAmount(p, t.row) # 0 /\ t.row \notin warnings'[p]
      ]_vars

\* C18 witness: an import of a row of amount 0 and of a flagged row has
\* returned after its commit, with both counters 0 and nothing persisted.
C18_Witness ==
    \E p \in Procs :
        /\ Returned(p) /\ outcome[p] = "committed"
        /\ Len(df_parsed[p]) = 2
        /\ RowAmount(p, 1) = 0
        /\ warnings[p] = {2}
        /\ success_count[p] = 0 /\ error_count[p] = 0
        /\ ImportedRows(p) = {}

C20_CategoryReferenced ==
    \A t \in txns :
        (t.by # 0 /\ Truthy(RowCategory(t.by, t.row)))
        => \E c \in cats :
              /\ c.category_id = t.category_id
              /\ c.name = Strip(RowCategory(t.by, t.row))

\* ------------------------------------------------------------------------
\* Properties of what the atomic importer returns
\* ------------------------------------------------------------------------
\* the names in the list new_categories that import p returns
NewCategoryNames(p) == {new_categories[p][k] : k \in 1..Len(new_categories[p])}

\* the category records import p created
CreatedBy(p) == {c \in cats : c.by = p}

ResultOf(p) ==
    << success_count[p], error_count[p], << >>, << >>, new_categories[p] >>

\* C23: for every batch, overlay and storage failure (entering the session,
\* category resolution, duplicate check, staging, commit) the function goes
\* on until it returns its five-element result: in no state has it stopped
\* without having returned.
C23_AlwaysReturns ==
    \A p \in Procs :
        /\ pc[p] \in {"off", "start", "categories", "create", "rows", "commit", "done"}
        /\ pc[p] \notin {"off", "done"} => ENABLED ImportStep(p)
        /\ Returned(p) =>
              /\ Len(ResultOf(p)) = 5
              /\ ResultOf(p)[1] \in 0..Len(df_parsed[p])
              /\ ResultOf(p)[2] \in 0..Len(df_parsed[p])
              /\ outcome[p] \in {"committed", "commit_failed", "aborted",
                                 "session_failed", "query_failed"}

\* C23 witness: an import of two rows has returned (0, 2, ...) after the
\* query of its own session raised during category resolution, the category
\* already created.
C23_Witness ==
    /\ Returned(1)
    /\ outcome[1] = "query_failed" /\ CreatedBy(1) # {}
    /\ Len(df_parsed[1]) = 2
    /\ ResultOf(1)[1] = 0 /\ ResultOf(1)[2] = 2

\* C24: when the function has returned, success_count is the number of
\* transaction records this import added to the store.
C24_SuccessesAreDurable ==
    \A p \in Procs :
        Returned(p) => success_count[p] = Cardinality({t \in txns : t.by = p})

\* C24 witness: an import of two rows returned after its commit with
\* success_count 2 and both records in the store.
C24_Witness ==
    /\ Returned(1) /\ outcome[1] = "committed"
    /\ success_count[1] = 2
    /\ Cardinality({t \in txns : t.by = 1}) = 2

\* the rows of import p without a missing merchant or category cell that
\* neither raised, nor were skipped for amount 0 or as a duplicate
ValidRows(p) ==
    {i \in 1..Len(df_parsed[p]) :
        /\ RowMerchant(p, i) # NaN /\ RowCategory(p, i) # NaN
        /\ RowAmount(p, i) # 0
        /\ i \notin raised[p] /\ i \notin warnings[p]}

\* C26 (as claimed): without a storage failure, a row with a missing
\* merchant or category cell does not keep the valid rows of its batch from
\* being persisted and counted.
C26_MissingCellIsLocal ==
    \A p \in Procs :
        (Returned(p) /\ outcome[p] \notin {"session_failed", "query_failed",
                                            "commit_failed"})
        => /\ ValidRows(p) \subseteq ImportedRows(p)
           /\ success_count[p] >= Cardinality(ValidRows(p))

\* C28 (as claimed): the description of every record an import stages is
\* the description of its normalized row, whatever the row's merchant
\* column or the overlay's merchant holds.
C28_DescriptionKept ==
    \A p \in Procs :
        \A t \in RecordsOf(p) : t.description = df_parsed[p][t.row]["description"]

\* ------------------------------------------------------------------------
\* Properties of the import page
\* ------------------------------------------------------------------------
\* the standard names of the columns of the normalized table
ParsedColumns == {parsed_data.columns[k] : k \in 1..Len(parsed_data.columns)}

\* C27 (as claimed): whenever the mapping gate was passed and the table was
\* normalized, the normalized table has a date, a description and an amount
\* column, also when two of these fields are mapped to the same header.
C27_RequiredColumnsPresent ==
    (Normalized /\ MappingComplete(column_mapping))
        => {"date", "description", "amount"} \subseteq ParsedColumns

MaxSheetRows == 1

\* rows of the worksheet before the appends, one with an empty Amount cell
SheetRowPool ==
    << [Description |-> DescTea, Amount |-> << "5", "0" >>, by |-> 0],
       [Description |-> DescPower, Amount |-> NaN, by |-> 0] >>

\* the rows the sessions append
AppendPool ==
    {[Description |-> Rent, Amount |-> << "9", "0", "0" >>],
     [Description |-> Food, Amount |-> << "1", "2" >>]}

\* df.fillna(""), line 73, on one row
Fillna(row) ==
    [f \in DOMAIN row |-> IF f # "by" /\ row[f] = NaN THEN << >> ELSE row[f]]

\* _read_sheet, lines 58-73: the table the connection returns
_read_sheet(sheet) == [k \in 1..Len(sheet) |-> Fillna(sheet[k])]

\* line 89: the table _append_row writes back
Updated(read, row) == IF Len(read) > 0 THEN Append(read, row) ELSE << row >>

\* two sessions are about to call _append_row(worksheet, row)
InitSheet ==
    /\ txns = {} /\ cats = {}
    /\ InitImport(InputPool, {}, [p \in Procs |-> << >>])
    /\ NoDupCall /\ NoAmountCall /\ NoDateCall /\ NoUpload /\ NoCacheCall
    /\ worksheet \in UNION {[1..k -> {SheetRowPool[j] : j \in 1..Len(SheetRowPool)}] :
                                k \in 0..MaxSheetRows}
    /\ \E rows \in [Procs -> AppendPool] :
          appender = [p \in Procs |->
                         [pc |-> "read", row |-> rows[p] @@ ("by" :> p), df |-> << >>]]

\* line 88: df = _read_sheet(worksheet); read_raises: the connection raises
\* and _read_sheet raises RuntimeError
ReadSheet(p) ==
    /\ appender[p].pc = "read"
    /\ \E read_raises \in BOOLEAN :
          appender' = [appender EXCEPT ![p] =
                          IF read_raises THEN [@ EXCEPT !.pc = "raised"]
                          ELSE [@ EXCEPT !.pc = "write", !.df = _read_sheet(worksheet)]]
    /\ UNCHANGED << txns, cats, importVars, call, answer, amount_str, amount_out,
                    dateVars, pageVars, cacheVars, worksheet >>

\* lines 89-91: _write_sheet(worksheet, updated) replaces the worksheet;
\* write_raises: the update raises and _write_sheet raises RuntimeError
WriteSheet(p) ==
    /\ appender[p].pc = "write"
    /\ \E write_raises \in BOOLEAN :
          IF write_raises
          THEN /\ appender' = [appender EXCEPT ![p].pc = "raised"]
               /\ UNCHANGED worksheet
          ELSE /\ worksheet' = Updated(appender[p].df, appender[p].row)
               /\ appender' = [appender EXCEPT ![p].pc = "done"]
    /\ UNCHANGED << txns, cats, importVars, call, answer, amount_str, amount_out,
                    dateVars, pageVars, cacheVars >>

NextSheet == \E p \in Procs : ReadSheet(p) \/ WriteSheet(p)

SpecSheet == InitSheet /\ [][NextSheet]_vars

\* C29 (as claimed): when both sessions' calls of _append_row have
\* returned, the worksheet holds both appended rows.
C29_BothRowsKept ==
    (\A p \in Procs : appender[p].pc = "done")
        => \A p \in Procs : \E k \in 1..Len(worksheet) : worksheet[k] = appender[p].row

\* ------------------------------------------------------------------------
\* The analytics cache (utils/analytics.py)
\* ------------------------------------------------------------------------
\* Cache expiration time in seconds
CACHE_TTL == 3600

\* the seconds between two readings of the clock
ClockStep == 1800

\* the readings of the clock after the first
MaxTicks == 3

\* Python values: None, a dict with string keys, a list
None == [type |-> "None"]

Dict(entries) == [type |-> "dict", entries |-> entries]

List(elems) == [type |-> "list", elems |-> elems]

\* bool(value) of "if cached_data:"
TruthyValue(value) ==
    IF value.type = "None" THEN FALSE
    ELSE IF value.type = "dict" THEN DOMAIN value.entries # {}
    ELSE Len(value.elems) > 0

\* json.dumps and json.loads: the text of a value, and the value of a text.
\* The values dumped here are dicts with string keys and lists, of floats
\* and strings, which a text gives back unchanged.
json_dumps(value) == [json |-> value]

json_loads(text) == text.json

\* datetime.isoformat()
isoformat(t) == [iso |-> t]

\* get_cached_data(db, user_id, cache_key) at time now, lines 29-40
get_cached_data(cache, cache_key, now) ==
    IF /\ cache_key \in DOMAIN cache
       /\ cache[cache_key].expires_at > now
       /\ ~(now > cache[cache_key].expires_at)
    THEN json_loads(cache[cache_key].data)
    ELSE None

\* set_cached_data(db, user_id, cache_key, data, ttl) at time now, lines
\* 50-72: the table afterwards.  Field computed records the data passed.
set_cached_data(cache, cache_key, data, ttl, now) ==
    (cache_key :>
        [data |-> json_dumps(Dict([data |-> data, cached_at |-> isoformat(now)])),
         expires_at |-> now + ttl,
         computed |-> data])
    @@ cache

\* the cached functions called, with what computing their result may give
CachedFunctions ==
    << [cache_key |-> "income_vs_expenses_2025-10-01_2025-10-31",
        results |-> {Dict([income |-> 7500000, expenses |-> 123450, savings |-> 7376550]),
                     Dict([income |-> 0, expenses |-> 0, savings |-> 0])}],
       [cache_key |-> "spending_trends_2025-10-01_2025-10-31_month",
        results |-> {List(<< >>),
                     List(<< Dict([period |-> "2025-10", expenses |-> 123450,
                                   income |-> 0, savings |-> -123450]) >>)}] >>

NoCachedCall == [made |-> FALSE]

InitCache ==
    /\ txns = {} /\ cats = {}
    /\ InitImport(InputPool, {}, [p \in Procs |-> << >>])
    /\ NoDupCall /\ NoAmountCall /\ NoDateCall /\ NoUpload /\ NoSheetCall
    /\ analytics_cache = << >>
    /\ utcnow = 0
    /\ cached = NoCachedCall

\* one call of a cached function (lines 82-85 and 140-143, and alike in the
\* other three): answer from the cache, or compute, store and return
CallCached ==
    /\ \E f \in 1..Len(CachedFunctions) :
          \E result \in CachedFunctions[f].results :
             LET cache_key == CachedFunctions[f].cache_key
                 cached_data == get_cached_data(analytics_cache, cache_key, utcnow)
             IN IF TruthyValue(cached_data)
                THEN /\ cached' = [made |-> TRUE, cache_key |-> cache_key,
                                   from_cache |-> TRUE, value |-> cached_data]
                     /\ UNCHANGED analytics_cache
                ELSE /\ analytics_cache' =
                           set_cached_data(analytics_cache, cache_key, result,
                                           CACHE_TTL, utcnow)
                     /\ cached' = [made |-> TRUE, cache_key |-> cache_key,
                                   from_cache |-> FALSE, value |-> result]
    /\ UNCHANGED << txns, cats, importVars, call, answer, amount_str, amount_out,
                    dateVars, pageVars, sheetVars, utcnow >>

\* time passes
Tick ==
    /\ utcnow < MaxTicks * ClockStep
    /\ utcnow' = utcnow + ClockStep
    /\ UNCHANGED << txns, cats, importVars, call, answer, amount_str, amount_out,
                    dateVars, pageVars, sheetVars, analytics_cache, cached >>

NextCache == CallCached \/ Tick

SpecCache == InitCache /\ [][NextCache]_vars

\* C30 (as claimed): a call answered from an unexpired cache entry returns
\* the value that the computing call passed to set_cached_data and
\* returned.
C30_CacheReturnsStored ==
    (cached.made /\ cached.from_cache)
        => cached.value = analytics_cache[cached.cache_key].computed

====
